---- MODULE Spec2Model ----
(***************************************************************************)
(* A model of the retrieval-fusion-and-grounding pipeline of Fintech-Rag:  *)
(* HybridRetriever (reciprocal rank fusion), CohereReranker, RAGGenerator, *)
(* the /query route that sequences them, BM25Store, SemanticChunker, and   *)
(* the module-level component references that /ingest publishes.           *)
(*                                                                         *)
(* Numbers.  Python floats are modelled exactly: a fusion weight w stands  *)
(* for w/10 (5 is 0.5), an RRF score is the fraction [num, den] in lowest   *)
(* terms, a reranker relevance score s stands for s/10.  Within the        *)
(* bounds below two different fractions differ by far more than a float    *)
(* rounding error, and the two-term sum the code computes is commutative   *)
(* in floating point, so exact comparison agrees with the code's.          *)
(***************************************************************************)
EXTENDS Integers, Sequences, FiniteSets, TLC

VARIABLES
    fpc,        \* fusion harness: "new", "rejected", "ready", "fused", "repeated",
                \*                 "swapped"
    fIn,        \* the retriever's weights and the arguments of the fuse call
    fOut,       \* result of _reciprocal_rank_fusion on fIn
    fOut2,      \* result of a second call (repeated, or lists and weights swapped)
    rrStats,    \* CohereReranker.stats (avg_rerank_time is wall-clock time: left out)
    rpc,        \* reranker harness: "idle", "calling", "returned", "raised"
    rIn,        \* arguments of the rerank / rerank_with_threshold call in progress
    rRaw,       \* what the wrapped rerank returned (`reranked` in rerank_with_threshold)
    rOut,       \* what the call returned
    rAttempt,   \* attempt number of the tenacity retry wrapper
    rLog,       \* outcome of every invocation of the reranker service in this call
    genStats,   \* RAGGenerator.stats
    qpc,        \* /query: "idle", "vector_search", "bm25_search", "fuse", "rerank",
                \*         "generate", "done"
    request,    \* the QueryRequest being served
    vector_found,       \* retrieve: what _vector_search returned
    bm25_found,         \* retrieve: what _bm25_search returned
    retrieve_args,      \* retrieve: top_k, vector_top_k, bm25_top_k after their defaults
    retrieval_results,  \* query_rag: what hybrid_retriever.retrieve returned
    reranked_results,   \* query_rag: what reranker.rerank returned
    result,     \* query_rag: what the generator returned
    response,   \* the HTTP response of the request
    events,     \* calls made while serving the request, in order
    served,     \* number of requests received
    gpc,        \* generator harness: "off", "ready", "returned", "compared", "built",
                \*                    "extracted"
    gIn,        \* arguments of the generator call made last
    gOut,       \* what that call returned
    gOut2,      \* what the same call with raised relevance scores returned
    bm25_index,        \* BM25Store.bm25: NoBm25 (None), or a BM25Okapi
    store_documents,   \* BM25Store.documents
    tokenized_corpus,  \* BM25Store.tokenized_corpus
    index_file,        \* the file at BM25Store.index_path
    bpc,        \* BM25 harness: "off", "ready", "returned", "raised"
    bIn,        \* arguments of the BM25Store call made last
    bOut,       \* what that call returned
    globals,         \* routes.py: _pipeline, _vector_store, _bm25_store,
                     \*   _hybrid_retriever, _reranker, _generator (0 is None)
    sparse_stores,   \* the BM25Store objects created so far
    retrievers,      \* the HybridRetriever objects created so far
    ingest,          \* the /ingest request in progress or served last
    query,           \* the /query request in progress or served last
    health,          \* the /health response given last
    cpc,        \* chunker harness: "off", "ready", "returned"
    cIn,        \* the documents of the chunk_documents call made last, and what
                \* the text splitter did with each
    cOut        \* what that call returned

fuseVars == <<fpc, fIn, fOut, fOut2>>
rerankCallVars == <<rpc, rIn, rRaw, rOut, rLog>>
rerankVars == <<rrStats, rAttempt, rerankCallVars>>
queryVars == <<genStats, qpc, request, vector_found, bm25_found, retrieve_args,
               retrieval_results, reranked_results, result, response, events, served>>
genVars == <<gpc, gIn, gOut, gOut2>>
bmVars == <<bm25_index, store_documents, tokenized_corpus, index_file, bpc, bIn, bOut>>
srvVars == <<globals, sparse_stores, retrievers, ingest, query, health>>
chunkVars == <<cpc, cIn, cOut>>
vars == <<fuseVars, rerankVars, queryVars, genVars, bmVars, srvVars, chunkVars>>

(***************************************************************************)
(* Bounds                                                                  *)
(***************************************************************************)
Ids == {"A", "B", "C", "D"}   \* passage identifiers
MaxLen == 3                   \* longest first-stage result list
MaxTopK == 4                  \* largest top_k handed to fusion

(***************************************************************************)
(* Helpers                                                                 *)
(***************************************************************************)
Min(a, b) == IF a <= b THEN a ELSE b

DupFree(s) == \A i, j \in 1..Len(s) : i # j => s[i] # s[j]

\* duplicate-free sequences over S of length at most n
DupFreeSeqs(S, n) == {s \in UNION {[1..m -> S] : m \in 0..n} : DupFree(s)}

\* s[:n] of Python for n >= 0
Prefix(s, n) == SubSeq(s, 1, Min(n, Len(s)))

IdsOf(results) == {results[i].id : i \in 1..Len(results)}

IdSeq(results) == [i \in 1..Len(results) |-> results[i].id]

\* exact fractions, kept in lowest terms
RECURSIVE GCD(_, _)
GCD(a, b) == IF b = 0 THEN a ELSE GCD(b, a % b)
Rat(n, d) == LET g == GCD(n, d) IN [num |-> n \div g, den |-> d \div g]
RatAdd(x, y) ==
    LET l == (x.den \div GCD(x.den, y.den)) * y.den
    IN  Rat(x.num * (l \div x.den) + y.num * (l \div y.den), l)
RatLess(x, y) == x.num * y.den < y.num * x.den
RatEq(x, y) == x.num * y.den = y.num * x.den
RatZero == [num |-> 0, den |-> 1]

(***************************************************************************)
(* HybridRetriever                                                         *)
(***************************************************************************)
RRF_K == 60
DefaultWeight == 5

\* results as _vector_search / _bm25_search format them: the payload of a
\* passage is the dict that carries its "source" tag
VectorResults(ids) == [i \in 1..Len(ids) |-> [id |-> ids[i], source |-> "vector"]]
Bm25Results(ids) == [i \in 1..Len(ids) |-> [id |-> ids[i], source |-> "bm25"]]

\* {r["id"]: idx for idx, r in enumerate(results)}: a later entry overwrites
RankOf(results, id) ==
    (CHOOSE i \in 1..Len(results) :
        /\ results[i].id = id
        /\ \A j \in (i + 1)..Len(results) : results[j].id # id) - 1

\* next(r for r in results if r["id"] == doc_id)
FirstWithId(results, id) ==
    results[CHOOSE i \in 1..Len(results) :
        /\ results[i].id = id
        /\ \A j \in 1..(i - 1) : results[j].id # id]

\* weight / (k + rank + 1), the weight in tenths
RrfTerm(w, rank, k) == Rat(w, 10 * (k + rank + 1))

\* RrfScore with the two weights applied to the wrong lists
RrfScoreWeightsCrossed(vector_results, bm25_results, id, wv, wb, k) ==
    LET s1 == IF id \in IdsOf(vector_results)
              THEN RatAdd(RatZero, RrfTerm(wb, RankOf(vector_results, id), k))
              ELSE RatZero
    IN  IF id \in IdsOf(bm25_results)
        THEN RatAdd(s1, RrfTerm(wv, RankOf(bm25_results, id), k))
        ELSE s1

RrfScore(vector_results, bm25_results, id, wv, wb, k) ==
    LET s0 == RatZero
        s1 == IF id \in IdsOf(vector_results)
              THEN RatAdd(s0, RrfTerm(wv, RankOf(vector_results, id), k))
              ELSE s0
    IN  IF id \in IdsOf(bm25_results)
        THEN RatAdd(s1, RrfTerm(wb, RankOf(bm25_results, id), k))
        ELSE s1

\* DocMap looking in the BM25 list first
DocMapBm25First(vector_results, bm25_results, id) ==
    IF id \in IdsOf(bm25_results)
    THEN FirstWithId(bm25_results, id)
    ELSE FirstWithId(vector_results, id)

\* doc_map[doc_id]: the vector entry is stored first, the BM25 entry only
\* "if doc_id not in doc_map"
DocMap(vector_results, bm25_results, id) ==
    IF id \in IdsOf(vector_results)
    THEN FirstWithId(vector_results, id)
    ELSE FirstWithId(bm25_results, id)

\* The iteration orders of the set all_ids: the order of a Python set of
\* strings depends on the process's hash seed and on insertion history, so
\* every permutation is an order the build can produce.
RECURSIVE IterationOrders(_)
IterationOrders(S) ==
    IF S = {} THEN {<<>>}
    ELSE UNION {{<<x>> \o rest : rest \in IterationOrders(S \ {x})} : x \in S}

\* one step of a stable descending sort: e goes behind every entry whose
\* score is not smaller
InsertDesc(sorted, e) ==
    LET p == Cardinality({i \in 1..Len(sorted) : ~RatLess(sorted[i].score, e.score)})
    IN  SubSeq(sorted, 1, p) \o <<e>> \o SubSeq(sorted, p + 1, Len(sorted))

\* sorted(rrf_scores.keys(), key=..., reverse=True): descending and stable,
\* the keys being listed in the dict's insertion order
RECURSIVE SortedDesc(_)
SortedDesc(entries) ==
    IF entries = <<>> THEN <<>>
    ELSE InsertDesc(SortedDesc(SubSeq(entries, 1, Len(entries) - 1)),
                    entries[Len(entries)])

\* the loop "for doc_id in all_ids": rrf_scores and doc_map, entry by entry
RECURSIVE ScoredEntries(_, _, _, _, _, _)
ScoredEntries(vector_results, bm25_results, k, wv, wb, order) ==
    IF order = <<>> THEN <<>>
    ELSE <<[id |-> Head(order),
            score |-> RrfScore(vector_results, bm25_results, Head(order), wv, wb, k),
            doc |-> DocMap(vector_results, bm25_results, Head(order))]>>
         \o ScoredEntries(vector_results, bm25_results, k, wv, wb, Tail(order))

\* doc["rrf_score"], doc["in_vector"], doc["in_bm25"] set on the stored dict
FusedDoc(vector_results, bm25_results, e) ==
    [id |-> e.doc.id,
     source |-> e.doc.source,
     rrf_score |-> e.score,
     in_vector |-> e.id \in IdsOf(vector_results),
     in_bm25 |-> e.id \in IdsOf(bm25_results)]

RECURSIVE FusedDocs(_, _, _)
FusedDocs(vector_results, bm25_results, entries) ==
    IF entries = <<>> THEN <<>>
    ELSE <<FusedDoc(vector_results, bm25_results, Head(entries))>>
         \o FusedDocs(vector_results, bm25_results, Tail(entries))

\* _reciprocal_rank_fusion, `order` being the iteration order of all_ids
Fuse(vector_results, bm25_results, top_k, k, wv, wb, order) ==
    LET entries == ScoredEntries(vector_results, bm25_results, k, wv, wb, order)
        sorted_ids == SortedDesc(entries)
    IN  FusedDocs(vector_results, bm25_results, Prefix(sorted_ids, top_k))

AllIds(vector_results, bm25_results) ==
    IdsOf(vector_results) \cup IdsOf(bm25_results)

\* WeightsValid checking the vector weight only
WeightsValidVectorOnly(vector_weight, bm25_weight) ==
    0 <= vector_weight /\ vector_weight <= 10

\* 0 <= vector_weight <= 1 and 0 <= bm25_weight <= 1 (weights in tenths)
WeightsValid(vector_weight, bm25_weight) ==
    /\ 0 <= vector_weight /\ vector_weight <= 10
    /\ 0 <= bm25_weight /\ bm25_weight <= 10

InvalidWeightError == "Weights must be between 0 and 1"

\* HybridRetriever.__init__: raises ValueError, or gives a retriever with the
\* two weights
Construct(vector_weight, bm25_weight) ==
    IF ~WeightsValid(vector_weight, bm25_weight)
    THEN [raised |-> TRUE, error |-> InvalidWeightError]
    ELSE [raised |-> FALSE, vector_weight |-> vector_weight,
          bm25_weight |-> bm25_weight]

(***************************************************************************)
(* CohereReranker                                                          *)
(***************************************************************************)
DefaultTopN == 10          \* settings.cohere_rerank_top_n
StopAfterAttempt == 3      \* stop_after_attempt(3) of the retry decorator

Scores == {2, 8}           \* relevance scores the service hands out, in tenths

NewRerankStats == [total_reranks |-> 0, total_documents |-> 0]

\* the responses the service may give for n texts and top_n = m: at most m
\* results with distinct zero-based indices, by descending relevance
RECURSIVE ServiceResults(_, _, _)
ServiceResults(indices, m, ceiling) ==
    {<<>>} \cup
    (IF m = 0 THEN {}
     ELSE UNION {{<<[index |-> i, relevance_score |-> sc]>> \o rest :
                     rest \in ServiceResults(indices \ {i}, m - 1, sc)} :
                 <<i, sc>> \in indices \X {x \in Scores : x <= ceiling}})

ServiceOutcomes(documents, top_n) ==
    {[ok |-> FALSE, results |-> <<>>]} \cup
    {[ok |-> TRUE, results |-> r] :
        r \in ServiceResults(0..(Len(documents) - 1), Min(top_n, Len(documents)), 10)}

\* top_n = top_n or self.top_n (None is modelled as 0, which Python's `or`
\* treats alike)
EffectiveTopN(top_n) == IF top_n = 0 THEN DefaultTopN ELSE top_n

\* doc = documents[result.index].copy() with rerank_score and rerank_index set
RerankedDoc(documents, res) ==
    LET doc == documents[res.index + 1]
    IN  [f \in DOMAIN doc \cup {"rerank_score", "rerank_index"} |->
            IF f = "rerank_score" THEN res.relevance_score
            ELSE IF f = "rerank_index" THEN res.index
            ELSE doc[f]]

RECURSIVE RerankedDocs(_, _)
RerankedDocs(documents, results) ==
    IF results = <<>> THEN <<>>
    ELSE <<RerankedDoc(documents, Head(results))>>
         \o RerankedDocs(documents, Tail(results))

\* RerankBody with the statistics updated before the service is called, so
\* that a failed call counts too
RerankBodyCountingFailures(documents, top_n, svc, stats) ==
    IF documents = <<>>
    THEN [raised |-> FALSE, value |-> <<>>, stats |-> stats, invoked |-> FALSE]
    ELSE [raised |-> FALSE,
          value |-> IF svc.ok THEN RerankedDocs(documents, svc.results)
                    ELSE Prefix(documents, EffectiveTopN(top_n)),
          stats |-> [total_reranks |-> stats.total_reranks + 1,
                     total_documents |-> stats.total_documents + Len(documents)],
          invoked |-> TRUE]

\* The body of rerank, one execution: `svc` is the outcome of client.rerank.
\* raised: the body left by an exception; invoked: the service was called.
RerankBody(documents, top_n, svc, stats) ==
    IF documents = <<>>
    THEN [raised |-> FALSE, value |-> <<>>, stats |-> stats, invoked |-> FALSE]
    ELSE IF svc.ok
    THEN [raised |-> FALSE,
          value |-> RerankedDocs(documents, svc.results),
          stats |-> [total_reranks |-> stats.total_reranks + 1,
                     total_documents |-> stats.total_documents + Len(documents)],
          invoked |-> TRUE]
    ELSE [raised |-> FALSE,
          value |-> Prefix(documents, EffectiveTopN(top_n)),
          stats |-> stats,
          invoked |-> TRUE]

\* @retry(stop=stop_after_attempt(3), ..., reraise=True): the wrapper runs the
\* body again only when the body raised and attempts are left
RetryAgain(raised, attempt) == raised /\ attempt < StopAfterAttempt

\* doc.get("rerank_score", 0)
RerankScoreOrZero(doc) ==
    IF "rerank_score" \in DOMAIN doc THEN doc.rerank_score ELSE 0

\* ThresholdFilter with the filter left out
ThresholdFilterOff(reranked, threshold) == reranked

\* [doc for doc in reranked if doc.get("rerank_score", 0) >= threshold]
ThresholdFilter(reranked, threshold) ==
    SelectSeq(reranked, LAMBDA doc : RerankScoreOrZero(doc) >= threshold)

(***************************************************************************)
(* RAGGenerator                                                            *)
(***************************************************************************)
GeneratorNoDocsAnswer == "I don't have any relevant documents to answer this question."
GenerationErrorAnswer == "I encountered an error generating the answer. Please try again."
ModelName == "gpt-4-turbo-preview"     \* settings.openai_model
ContextWindow == 4000                  \* settings.rag_context_window
BlockFrame == 40           \* characters of a context block besides its four fields

\* The corpus: metadata and text of the passages, by identifier.  Only the
\* lengths of the texts matter to the generator.
MetaSource(doc) == doc.id
MetaPage(doc) == "1"
SourceLength(doc) == 5
PageLength(doc) == 1
ContentLength(doc) == IF doc.id \in {"A", "C"} THEN 120 ELSE 80
Digits(n) == IF n < 10 THEN 1 ELSE 2

\* An answer of the language model: its text, the length of the text, and the
\* text again as the sequence of its parts, a part being a stretch of plain
\* prose, a "[Source: X, Page: Y]", a "(Source: X)", or a "[Source: X]"
\* without a page, which neither pattern of _extract_citations matches.
Plain == [form |-> "plain"]
Bracket(source, page) == [form |-> "bracket", source |-> source, page |-> page]
Paren(source) == [form |-> "paren", source |-> source]
BracketNoPage(source) == [form |-> "bracket_no_page", source |-> source]

AnswerBracket ==
    [text |-> "Capital is 8% [Source: handbook.pdf, Page: 12]", length |-> 46,
     parts |-> <<Plain, Bracket("handbook.pdf", "12")>>]
AnswerPlain ==
    [text |-> "Capital is 8%.", length |-> 14, parts |-> <<Plain>>]
AnswerParen ==
    [text |-> "See (Source: policy.pdf).", length |-> 25,
     parts |-> <<Plain, Paren("policy.pdf"), Plain>>]
AnswerMixed ==
    [text |-> "[Source: handbook.pdf, Page: 12] and (Source: policy.pdf), also [Source: basel.pdf, Page: 3]",
     length |-> 92,
     parts |-> <<Bracket("handbook.pdf", "12"), Plain, Paren("policy.pdf"), Plain,
                 Bracket("basel.pdf", "3")>>]
AnswerNoPage ==
    [text |-> "Capital is 8% [Source: handbook.pdf]", length |-> 36,
     parts |-> <<Plain, BracketNoPage("handbook.pdf")>>]

\* the answers the language model may give in the /query route
LlmAnswers == {AnswerBracket, AnswerPlain}

LlmOutcomes == {[ok |-> FALSE]} \cup {[ok |-> TRUE, answer |-> a] : a \in LlmAnswers}

NewGenStats ==
    [total_generations |-> 0, avg_context_length |-> RatZero,
     avg_response_length |-> RatZero]

\* len(doc_str) of the block of the idx-th document
BlockLength(idx, doc) ==
    BlockFrame + Digits(idx) + SourceLength(doc) + PageLength(doc) + ContentLength(doc)

\* _build_context_string: the lengths of the blocks in context_parts
RECURSIVE ContextParts(_, _, _, _)
ContextParts(documents, idx, total_length, max_length) ==
    IF idx > Len(documents) THEN <<>>
    ELSE IF total_length + BlockLength(idx, documents[idx]) > max_length THEN <<>>
    ELSE <<BlockLength(idx, documents[idx])>>
         \o ContextParts(documents, idx + 1,
                         total_length + BlockLength(idx, documents[idx]), max_length)

RECURSIVE SumSeq(_)
SumSeq(s) == IF s = <<>> THEN 0 ELSE Head(s) + SumSeq(Tail(s))

\* len("\n".join(context_parts))
ContextLength(documents, max_length) ==
    LET parts == ContextParts(documents, 1, 0, max_length)
    IN  IF parts = <<>> THEN 0 ELSE SumSeq(parts) + Len(parts) - 1

\* _build_context_string: the blocks joined and the length of the string
BuildContextString(documents, max_length) ==
    [parts |-> ContextParts(documents, 1, 0, max_length),
     length |-> ContextLength(documents, max_length)]

\* re.findall(pattern1, answer) and re.findall(pattern2, answer)
Pattern1Matches(answer) == SelectSeq(answer.parts, LAMBDA t : t.form = "bracket")
Pattern2Matches(answer) == SelectSeq(answer.parts, LAMBDA t : t.form = "paren")

\* ExtractCitations never falling back on the context documents
ExtractCitationsExplicitOnly(answer, context_documents) ==
    LET m1 == Pattern1Matches(answer)
        m2 == Pattern2Matches(answer)
    IN  [i \in 1..Len(m1) |->
            [source |-> m1[i].source, page |-> m1[i].page, type |-> "explicit"]]
        \o [i \in 1..Len(m2) |->
            [source |-> m2[i].source, page |-> "N/A", type |-> "explicit"]]

\* _extract_citations: every match of pattern 1, then every match of pattern
\* 2, is explicit; with none, the first three context documents are cited as
\* inferred
ExtractCitations(answer, context_documents) ==
    LET m1 == Pattern1Matches(answer)
        m2 == Pattern2Matches(answer)
        citations ==
            [i \in 1..Len(m1) |->
                [source |-> m1[i].source, page |-> m1[i].page, type |-> "explicit"]]
            \o [i \in 1..Len(m2) |->
                [source |-> m2[i].source, page |-> "N/A", type |-> "explicit"]]
        top == Prefix(context_documents, 3)
    IN  IF citations # <<>> THEN citations
        ELSE [i \in 1..Len(top) |->
                [source |-> MetaSource(top[i]), page |-> MetaPage(top[i]),
                 type |-> "inferred"]]

\* doc.get("rerank_score", doc.get("rrf_score", 0)), as a fraction
UsedScore(doc) ==
    IF "rerank_score" \in DOMAIN doc THEN Rat(doc.rerank_score, 10)
    ELSE IF "rrf_score" \in DOMAIN doc THEN doc.rrf_score
    ELSE RatZero

ContextUsed(context_documents) ==
    [i \in 1..Len(context_documents) |->
        [source |-> MetaSource(context_documents[i]),
         page |-> MetaPage(context_documents[i]),
         score |-> UsedScore(context_documents[i])]]

\* (avg * (n - 1) + x) / n
RunningAverage(avg, n, x) ==
    LET sum == RatAdd(Rat(avg.num * (n - 1), avg.den), Rat(x, 1))
    IN  Rat(sum.num, sum.den * n)

\* generate past its guard: context, prompt, language model, citations,
\* statistics.  `llm` is the outcome of self.llm.invoke.
GenerateFromContext(context_documents, llm, stats) ==
    IF llm.ok
    THEN LET n == stats.total_generations + 1
         IN  [result |-> [answer |-> llm.answer.text,
                          citations |-> ExtractCitations(llm.answer, context_documents),
                          context_used |-> ContextUsed(context_documents),
                          model |-> ModelName],
              stats |-> [total_generations |-> n,
                         avg_context_length |->
                             RunningAverage(stats.avg_context_length, n,
                                 ContextLength(context_documents, ContextWindow)),
                         avg_response_length |->
                             RunningAverage(stats.avg_response_length, n,
                                 llm.answer.length)],
              invoked |-> TRUE]
    ELSE [result |-> [answer |-> GenerationErrorAnswer, citations |-> <<>>,
                      context_used |-> <<>>, error |-> "generation failed"],
          stats |-> stats,
          invoked |-> TRUE]

\* Generate without the guard on an empty context
GenerateUnguarded(context_documents, llm, stats) ==
    GenerateFromContext(context_documents, llm, stats)

\* Generate counting a failed call in total_generations
GenerateCountingFailures(context_documents, llm, stats) ==
    IF context_documents = <<>>
    THEN [result |-> [answer |-> GeneratorNoDocsAnswer, citations |-> <<>>,
                      context_used |-> <<>>],
          stats |-> stats,
          invoked |-> FALSE]
    ELSE LET g == GenerateFromContext(context_documents, llm, stats)
         IN  IF llm.ok THEN g
             ELSE [g EXCEPT !.stats.total_generations = @ + 1]

\* generate.  invoked: the language model was called.
Generate(context_documents, llm, stats) ==
    IF context_documents = <<>>
    THEN [result |-> [answer |-> GeneratorNoDocsAnswer, citations |-> <<>>,
                      context_used |-> <<>>],
          stats |-> stats,
          invoked |-> FALSE]
    ELSE GenerateFromContext(context_documents, llm, stats)

RatMin(x, y) == IF RatLess(y, x) THEN y ELSE x

RECURSIVE RatSum(_)
RatSum(s) == IF s = <<>> THEN RatZero ELSE RatAdd(Head(s), RatSum(Tail(s)))

\* Confidence averaging the scores of all documents, not of the first three
ConfidenceOverAll(context_documents, citations) ==
    IF context_documents = <<>> THEN RatZero
    ELSE LET top_scores == [i \in 1..Len(context_documents) |->
                               UsedScore(context_documents[i])]
             total == RatSum(top_scores)
             avg_score == Rat(total.num, total.den * Len(top_scores))
             doc_bonus == RatMin(Rat(Len(context_documents), 5), Rat(2, 10))
             citation_bonus == IF citations # <<>> THEN Rat(1, 10) ELSE RatZero
         IN  RatMin(RatAdd(RatAdd(avg_score, doc_bonus), citation_bonus), Rat(1, 1))

\* Confidence wrapping around at 1.0 instead of stopping there
ConfidenceWrapped(context_documents, citations) ==
    IF context_documents = <<>> THEN RatZero
    ELSE LET top == Prefix(context_documents, 3)
             top_scores == [i \in 1..Len(top) |-> UsedScore(top[i])]
             total == RatSum(top_scores)
             avg_score == Rat(total.num, total.den * Len(top_scores))
             doc_bonus == RatMin(Rat(Len(context_documents), 5), Rat(2, 10))
             citation_bonus == IF citations # <<>> THEN Rat(1, 10) ELSE RatZero
             sum == RatAdd(RatAdd(avg_score, doc_bonus), citation_bonus)
         IN  IF RatLess(Rat(1, 1), sum) THEN Rat(sum.num - sum.den, sum.den) ELSE sum

\* the confidence of generate_with_confidence
Confidence(context_documents, citations) ==
    IF context_documents = <<>> THEN RatZero
    ELSE LET top == Prefix(context_documents, 3)
             top_scores == [i \in 1..Len(top) |-> UsedScore(top[i])]
             total == RatSum(top_scores)
             avg_score == Rat(total.num, total.den * Len(top_scores))
             doc_bonus == RatMin(Rat(Len(context_documents), 5), Rat(2, 10))
             citation_bonus == IF citations # <<>> THEN Rat(1, 10) ELSE RatZero
         IN  RatMin(RatAdd(RatAdd(avg_score, doc_bonus), citation_bonus), Rat(1, 1))

ConfidenceLevel(confidence) ==
    IF ~RatLess(confidence, Rat(7, 10)) THEN "high"
    ELSE IF ~RatLess(confidence, Rat(4, 10)) THEN "medium"
    ELSE "low"

\* d with d[key] = value set
WithField(d, key, value) ==
    [f \in DOMAIN d \cup {key} |-> IF f = key THEN value ELSE d[f]]

\* generate_with_confidence
GenerateWithConfidence(context_documents, llm, stats) ==
    LET g == Generate(context_documents, llm, stats)
        confidence == Confidence(context_documents, g.result.citations)
    IN  [g EXCEPT !.result =
            WithField(WithField(g.result, "confidence", confidence),
                      "confidence_level", ConfidenceLevel(confidence))]

(***************************************************************************)
(* The state of a part of the model that takes no part in a run.           *)
(***************************************************************************)
NoResult == [pending |-> TRUE]
NoArgs == [top_k |-> 0, vector_top_k |-> 0, bm25_top_k |-> 0]
FuseIdle ==
    /\ fpc = "off" /\ fIn = [top_k |-> 0] /\ fOut = <<>> /\ fOut2 = <<>>

RerankIdle ==
    /\ rrStats = NewRerankStats
    /\ rpc = "idle"
    /\ rIn = [op |-> "none"]
    /\ rRaw = <<>>
    /\ rOut = <<>>
    /\ rAttempt = 0
    /\ rLog = <<>>

FreshRequestState ==
    /\ request = [top_k |-> 0, include_confidence |-> FALSE]
    /\ retrieve_args = NoArgs
    /\ vector_found = <<>>
    /\ bm25_found = <<>>
    /\ retrieval_results = <<>>
    /\ reranked_results = <<>>
    /\ result = NoResult
    /\ response = [status |-> 0]
    /\ events = <<>>

QueryIdle ==
    /\ genStats = NewGenStats
    /\ qpc = "idle"
    /\ served = 0
    /\ FreshRequestState

GenIdle ==
    /\ gpc = "off" /\ gIn = [op |-> "none"] /\ gOut = NoResult /\ gOut2 = NoResult

\* self.bm25 = None, and a BM25Okapi built over a tokenized corpus
NoBm25 == [built |-> FALSE]
BM25Okapi(corpus) == [built |-> TRUE, corpus |-> corpus]

\* BM25Store.__init__: no index, no documents, no tokens
NewStore == [bm25 |-> NoBm25, documents |-> <<>>, tokenized_corpus |-> <<>>]

\* no file at index_path
NoFile == [kind |-> "absent"]

\* the module-level references of routes.py before any ingest
NoGlobals ==
    [pipeline |-> 0, vector_store |-> 0, bm25_store |-> 0,
     hybrid_retriever |-> 0, reranker |-> 0, generator |-> 0]

NoIngest ==
    [pc |-> "idle", n |-> 0, succeeded |-> 0, directory_exists |-> TRUE,
     embedded_documents |-> <<>>, before |-> NoGlobals, response |-> [status |-> 0]]

NoQuery ==
    [pc |-> "idle", n |-> 0, quiescent |-> TRUE, initialized |-> FALSE,
     deps |-> NoGlobals, store |-> 0, seen_bm25 |-> NoBm25, seen_documents |-> <<>>,
     response |-> [status |-> 0]]

NoHealth == [status |-> "none"]

ServerIdle ==
    /\ globals = NoGlobals /\ sparse_stores = <<>> /\ retrievers = <<>>
    /\ ingest = NoIngest /\ query = NoQuery /\ health = NoHealth

ChunkIdle ==
    /\ cpc = "off" /\ cIn = [documents |-> <<>>, splits |-> <<>>] /\ cOut = <<>>

Bm25Idle ==
    /\ bm25_index = NoBm25 /\ store_documents = <<>> /\ tokenized_corpus = <<>>
    /\ index_file = NoFile
    /\ bpc = "off" /\ bIn = [op |-> "none"] /\ bOut = <<>>

(***************************************************************************)
(* The fusion harness: one retriever, one call of fuse, then a second call *)
(* with the same arguments or with the two lists and weights exchanged.    *)
(***************************************************************************)
\* weights the constructor accepts (0 <= w <= 1), as <<vector, bm25>>
WeightPairs == {<<DefaultWeight, DefaultWeight>>, <<3, 7>>, <<10, 0>>}

\* weights the constructor is handed that lie outside [0, 1]
BadWeightPairs == {<<11, DefaultWeight>>, <<DefaultWeight, -1>>}

\* Identifiers are opaque to fusion (it only compares them for equality), so
\* the sparse list is named in order without loss of generality; the dense
\* list is any duplicate-free list.
SparseLists == {SubSeq(<<"A", "B", "C", "D">>, 1, n) : n \in 0..Min(MaxLen, 4)}

\* fIn holds the weights handed to the constructor and the arguments of the
\* fuse call made on the retriever once it exists
FuseInit ==
    /\ fpc = "new"
    /\ \E vs \in DupFreeSeqs(Ids, MaxLen), bs \in SparseLists,
          w \in WeightPairs \cup BadWeightPairs, tk \in 0..MaxTopK :
          fIn = [vector |-> VectorResults(vs), bm25 |-> Bm25Results(bs),
                 vector_weight |-> w[1], bm25_weight |-> w[2], top_k |-> tk]
    /\ fOut = <<>>
    /\ fOut2 = <<>>
    /\ RerankIdle
    /\ QueryIdle
    /\ GenIdle
    /\ Bm25Idle
    /\ ServerIdle
    /\ ChunkIdle

\* HybridRetriever(vector_store, bm25_store, embedder, vector_weight, bm25_weight)
ConstructRetriever ==
    /\ fpc = "new"
    /\ fpc' = IF Construct(fIn.vector_weight, fIn.bm25_weight).raised
              THEN "rejected" ELSE "ready"
    /\ UNCHANGED <<srvVars, chunkVars, fIn, fOut, fOut2, rerankVars, queryVars, genVars, bmVars>>

FuseCall ==
    /\ fpc = "ready"
    /\ \E order \in IterationOrders(AllIds(fIn.vector, fIn.bm25)) :
          fOut' = Fuse(fIn.vector, fIn.bm25, fIn.top_k, RRF_K,
                       fIn.vector_weight, fIn.bm25_weight, order)
    /\ fpc' = "fused"
    /\ UNCHANGED <<srvVars, chunkVars, fIn, fOut2, rerankVars, queryVars,
                   genVars, bmVars>>

FuseRepeat ==
    /\ fpc = "fused"
    /\ \E order \in IterationOrders(AllIds(fIn.vector, fIn.bm25)) :
          fOut2' = Fuse(fIn.vector, fIn.bm25, fIn.top_k, RRF_K,
                        fIn.vector_weight, fIn.bm25_weight, order)
    /\ fpc' = "repeated"
    /\ UNCHANGED <<srvVars, chunkVars, fIn, fOut, rerankVars, queryVars,
                   genVars, bmVars>>

FuseSwapped ==
    /\ fpc = "fused"
    /\ \E order \in IterationOrders(AllIds(fIn.vector, fIn.bm25)) :
          fOut2' = Fuse(fIn.bm25, fIn.vector, fIn.top_k, RRF_K,
                        fIn.bm25_weight, fIn.vector_weight, order)
    /\ fpc' = "swapped"
    /\ UNCHANGED <<srvVars, chunkVars, fIn, fOut, rerankVars, queryVars,
                   genVars, bmVars>>

FuseNext == ConstructRetriever \/ FuseCall \/ FuseRepeat \/ FuseSwapped

SpecFuse == FuseInit /\ [][FuseNext]_vars

(***************************************************************************)
(* The reranker harness: calls of rerank and rerank_with_threshold on one  *)
(* reranker, each attempt of the retry wrapper being one step.  The calls  *)
(* come one after another: the only caller, query_rag, is a coroutine that *)
(* calls rerank without awaiting anything, so the event loop runs each     *)
(* request's rerank to its end before it starts another.                   *)
(***************************************************************************)
MaxDocs == 3               \* most candidates handed to the reranker
MaxTopN == 3               \* largest top_n argument
MaxCalls == 2              \* successful service calls counted by the statistics

Thresholds == {0, 8, 10}   \* relevance thresholds, in tenths

\* FusedResults to rerank: what fusion returns for the sparse list A, B, ...
CandidateLists ==
    {Fuse(<<>>, Bm25Results(SubSeq(<<"A", "B", "C", "D">>, 1, n)), n, RRF_K,
          DefaultWeight, DefaultWeight, SubSeq(<<"A", "B", "C", "D">>, 1, n)) :
        n \in 0..Min(MaxDocs, 4)}

RerankInit ==
    /\ RerankIdle
    /\ FuseIdle
    /\ QueryIdle
    /\ GenIdle
    /\ Bm25Idle
    /\ ServerIdle
    /\ ChunkIdle

\* a caller invokes rerank(query, documents, top_n)
CallRerank ==
    /\ rpc \in {"idle", "returned"}
    /\ rrStats.total_reranks < MaxCalls
    /\ \E docs \in CandidateLists, tn \in 0..MaxTopN :
          rIn' = [op |-> "rerank", documents |-> docs, top_n |-> tn, threshold |-> 0]
    /\ rpc' = "calling"
    /\ rAttempt' = 1
    /\ rLog' = <<>>
    /\ rRaw' = <<>>
    /\ rOut' = <<>>
    /\ UNCHANGED <<srvVars, chunkVars, rrStats, fuseVars, queryVars,
                   genVars, bmVars>>

\* a caller invokes rerank_with_threshold(query, documents, threshold, top_n)
CallRerankWithThreshold ==
    /\ rpc \in {"idle", "returned"}
    /\ rrStats.total_reranks < MaxCalls
    /\ \E docs \in CandidateLists, tn \in 0..MaxTopN, th \in Thresholds :
          rIn' = [op |-> "rerank_with_threshold", documents |-> docs,
                  top_n |-> tn, threshold |-> th]
    /\ rpc' = "calling"
    /\ rAttempt' = 1
    /\ rLog' = <<>>
    /\ rRaw' = <<>>
    /\ rOut' = <<>>
    /\ UNCHANGED <<srvVars, chunkVars, rrStats, fuseVars, queryVars,
                   genVars, bmVars>>

\* one attempt of the wrapped rerank; rerank_with_threshold filters what the
\* wrapped call returns
RerankAttempt ==
    /\ rpc = "calling"
    /\ \E svc \in ServiceOutcomes(rIn.documents, EffectiveTopN(rIn.top_n)) :
          LET b == RerankBody(rIn.documents, rIn.top_n, svc, rrStats)
          IN  /\ rrStats' = b.stats
              /\ rLog' = IF b.invoked
                         THEN Append(rLog, IF svc.ok THEN "ok" ELSE "failed")
                         ELSE rLog
              /\ IF RetryAgain(b.raised, rAttempt)
                 THEN /\ rAttempt' = rAttempt + 1
                      /\ UNCHANGED <<rpc, rRaw, rOut>>
                 ELSE /\ rpc' = IF b.raised THEN "raised" ELSE "returned"
                      /\ rRaw' = b.value
                      /\ rOut' = IF b.raised THEN <<>>
                                 ELSE IF rIn.op = "rerank_with_threshold"
                                 THEN ThresholdFilter(b.value, rIn.threshold)
                                 ELSE b.value
                      /\ UNCHANGED rAttempt
    /\ UNCHANGED <<srvVars, chunkVars, rIn, fuseVars, queryVars,
                   genVars, bmVars>>

RerankNext == CallRerank \/ CallRerankWithThreshold \/ RerankAttempt

SpecRerank == RerankInit /\ [][RerankNext]_vars

(***************************************************************************)
(* The generator harness: one RAGGenerator; generate, generate_with_       *)
(* confidence and _build_context_string are called on reranked passages.   *)
(***************************************************************************)
MaxCtxDocs == 4            \* most passages handed to the generator
GenScores == {0, 2, 10}    \* relevance scores of the passages, in tenths
MaxLengths == {0, 127, 167, 293, 294, 295, ContextWindow}   \* max_length arguments

PassageAt(i) == <<"A", "B", "C", "D", "E">>[i]

\* passages as rerank returns them, and as its fallback does (no rerank_score)
RerankedLists ==
    UNION {{[i \in 1..n |-> [id |-> PassageAt(i), rerank_score |-> sc[i]]] :
               sc \in [1..n -> GenScores]} : n \in 0..Min(MaxCtxDocs, 5)}

FallbackLists ==
    {[i \in 1..n |-> [id |-> PassageAt(i), rrf_score |-> RrfTerm(DefaultWeight, i - 1, RRF_K)]] :
        n \in 1..Min(MaxCtxDocs, 5)}

GenDocLists == RerankedLists \cup FallbackLists

\* generate reads no score: one list of each length does for it
UnscoredLists == {<<>>} \cup FallbackLists

GenLlmOutcomes ==
    {[ok |-> FALSE]} \cup
    {[ok |-> TRUE, answer |-> a] :
        a \in {AnswerBracket, AnswerPlain, AnswerParen, AnswerMixed, AnswerNoPage}}

\* the lists with the same passages and relevance scores at least as high
RaisedLists(docs) ==
    IF docs \notin RerankedLists THEN {}
    ELSE {d \in RerankedLists :
             /\ Len(d) = Len(docs)
             /\ \A i \in 1..Len(docs) : d[i].rerank_score >= docs[i].rerank_score}

\* the statistics of a generator that has served no call, one call, two calls
PriorGenStats ==
    LET one == Generate(<<[id |-> "A"]>>, [ok |-> TRUE, answer |-> AnswerPlain],
                        NewGenStats).stats
        two == Generate(<<[id |-> "A"], [id |-> "B"]>>,
                        [ok |-> TRUE, answer |-> AnswerBracket], one).stats
    IN  {NewGenStats, one, two}

GenInit ==
    /\ gpc = "ready" /\ gIn = [op |-> "none"] /\ gOut = NoResult /\ gOut2 = NoResult
    /\ genStats \in PriorGenStats
    /\ qpc = "idle"
    /\ served = 0
    /\ FreshRequestState
    /\ RerankIdle
    /\ FuseIdle
    /\ Bm25Idle
    /\ ServerIdle
    /\ ChunkIdle

CallGenerate ==
    /\ gpc = "ready"
    /\ \E wc \in BOOLEAN, llm \in GenLlmOutcomes :
        \E docs \in IF wc THEN GenDocLists ELSE UnscoredLists :
          LET g == IF wc THEN GenerateWithConfidence(docs, llm, genStats)
                   ELSE Generate(docs, llm, genStats)
          IN  /\ gIn' = [op |-> "generate", documents |-> docs, llm |-> llm,
                         with_confidence |-> wc]
              /\ gOut' = g.result
              /\ genStats' = g.stats
    /\ gOut2' = NoResult
    /\ gpc' = "returned"
    /\ UNCHANGED <<srvVars, chunkVars, qpc, request, vector_found, bm25_found, retrieval_results, retrieve_args,
                   reranked_results, result, response, events, served,
                   fuseVars, rerankVars, bmVars>>

\* generate_with_confidence again: same passages, same answer of the language
\* model, relevance scores raised
CallGenerateRaised ==
    /\ gpc = "returned"
    /\ gIn.op = "generate"
    /\ gIn.with_confidence
    /\ \E docs \in RaisedLists(gIn.documents) :
          LET g == GenerateWithConfidence(docs, gIn.llm, genStats)
          IN  /\ gIn' = WithField(gIn, "raised", docs)
              /\ gOut2' = g.result
              /\ genStats' = g.stats
    /\ gpc' = "compared"
    /\ UNCHANGED <<srvVars, chunkVars, gOut, qpc, request, vector_found, bm25_found, retrieval_results, retrieve_args,
                   reranked_results, result, response, events, served,
                   fuseVars, rerankVars, bmVars>>

\* _build_context_string reads and writes nothing of the generator
CallBuildContext ==
    /\ gpc = "ready"
    /\ \E docs \in GenDocLists, ml \in MaxLengths :
          /\ gIn' = [op |-> "build_context", documents |-> docs, max_length |-> ml]
          /\ gOut' = BuildContextString(docs, ml)
    /\ gOut2' = NoResult
    /\ gpc' = "built"
    /\ UNCHANGED <<srvVars, chunkVars, queryVars, fuseVars, rerankVars, bmVars>>

\* _extract_citations reads and writes nothing of the generator
CallExtractCitations ==
    /\ gpc = "ready"
    /\ \E llm \in GenLlmOutcomes, docs \in UnscoredLists :
          /\ llm.ok
          /\ gIn' = [op |-> "extract_citations", answer |-> llm.answer,
                     documents |-> docs]
          /\ gOut' = ExtractCitations(llm.answer, docs)
    /\ gOut2' = NoResult
    /\ gpc' = "extracted"
    /\ UNCHANGED <<srvVars, chunkVars, queryVars, fuseVars, rerankVars, bmVars>>

GenNext ==
    \/ CallGenerate
    \/ CallGenerateRaised
    \/ CallBuildContext
    \/ CallExtractCitations

SpecGen == GenInit /\ [][GenNext]_vars

(***************************************************************************)
(* The /query route (query_rag), served by the components an ingest has    *)
(* published: a HybridRetriever with the default weights over a built      *)
(* BM25 store, a CohereReranker and a RAGGenerator.                        *)
(***************************************************************************)
MaxHits == 2               \* most passages a first-stage search finds
MaxTopKRequest == 2        \* largest top_k a request asks for
MaxQueries == 1            \* requests served
RetrievalTopKVector == 20  \* settings.retrieval_top_k_vector
RetrievalTopKBm25 == 20    \* settings.retrieval_top_k_bm25
RetrievalRerankTopN == 5   \* settings.retrieval_rerank_top_n
DenseHits == {"A", "C"}    \* passages the vector store may return

RouteNoDocsAnswer == "I couldn't find any relevant documents to answer your question. Please try rephrasing or check if documents have been ingested."


Init ==
    /\ QueryIdle
    /\ RerankIdle
    /\ FuseIdle
    /\ GenIdle
    /\ Bm25Idle
    /\ ServerIdle
    /\ ChunkIdle

\* except Exception: raise HTTPException(500, "Query processing failed: ...")
ServerError == [status |-> 500, detail |-> "Query processing failed"]

\* NothingRetrieved never returning early
NothingRetrievedIgnored(results) == FALSE

\* `if not retrieval_results:` of query_rag
NothingRetrieved(results) == results = <<>>

\* the QueryResponse of the early return; a field left at its default None
\* (confidence, confidence_level) is a field the record does not have
NoDocsResponse ==
    [status |-> 200, answer |-> RouteNoDocsAnswer, citations |-> <<>>,
     context_used |-> <<>>, model |-> ModelName]

\* field=result.get(key): None, hence absent, when the dict has no such key
CopyIfPresent(resp, d, key) ==
    IF key \in DOMAIN d THEN WithField(resp, key, d[key]) ELSE resp

\* step 4 of query_rag: result["model"] of a dict without that key raises
\* KeyError, which the route's except turns into a 500
BuildResponse(res) ==
    IF "model" \notin DOMAIN res THEN ServerError
    ELSE CopyIfPresent(
             CopyIfPresent(
                 [status |-> 200, answer |-> res.answer, citations |-> res.citations,
                  context_used |-> res.context_used, model |-> res.model],
                 res, "confidence"),
             res, "confidence_level")

\* `x or default`: the default when x is None or 0 (None is written 0)
OrDefault(x, default) == IF x = 0 THEN default ELSE x

\* retrieve, lines 100-102: the three counts after their defaults
RetrieveArgs(top_k, vector_top_k, bm25_top_k) ==
    [top_k |-> OrDefault(top_k, RetrievalRerankTopN),
     vector_top_k |-> OrDefault(vector_top_k, RetrievalTopKVector),
     bm25_top_k |-> OrDefault(bm25_top_k, RetrievalTopKBm25)]

\* RouteRetrieveArgs with the request's top_k passed on as it is
RouteRetrieveArgsUndoubled(req) == RetrieveArgs(req.top_k, 0, 0)

\* query_rag calls retrieve(query, top_k=request.top_k * 2, filter_metadata)
\* and leaves vector_top_k and bm25_top_k at None
RouteRetrieveArgs(req) == RetrieveArgs(req.top_k * 2, 0, 0)

\* a request arrives; get_dependencies finds the components
ReceiveQuery ==
    /\ qpc \in {"idle", "done"}
    /\ served < MaxQueries
    /\ served' = served + 1
    /\ \E tk \in 1..MaxTopKRequest, ic \in BOOLEAN :
          request' = [top_k |-> tk, include_confidence |-> ic]
    /\ retrieve_args' = NoArgs
    /\ vector_found' = <<>>
    /\ bm25_found' = <<>>
    /\ retrieval_results' = <<>>
    /\ reranked_results' = <<>>
    /\ result' = NoResult
    /\ response' = [status |-> 0]
    /\ events' = <<>>
    /\ qpc' = "vector_search"
    /\ UNCHANGED <<srvVars, chunkVars, genStats, fuseVars, rerankVars,
                   genVars, bmVars>>

\* retrieve, step 1: the query is embedded and the vector store answers
VectorSearch ==
    /\ qpc = "vector_search"
    /\ retrieve_args' = RouteRetrieveArgs(request)
    /\ \E ids \in DupFreeSeqs(DenseHits, Min(MaxHits, retrieve_args'.vector_top_k)) :
          vector_found' = VectorResults(ids)
    /\ events' = Append(events, "vector_search")
    /\ qpc' = "bm25_search"
    /\ UNCHANGED <<srvVars, chunkVars, genStats, request, bm25_found, retrieval_results,
                   reranked_results, result, response, served, fuseVars, rerankVars,
                   genVars, bmVars>>

\* retrieve, step 1: embed_query or vector_store.query raises; nothing in
\* retrieve catches it, query_rag answers 500
VectorSearchFails ==
    /\ qpc = "vector_search"
    /\ retrieve_args' = RouteRetrieveArgs(request)
    /\ events' = Append(events, "vector_search_failed")
    /\ response' = ServerError
    /\ qpc' = "done"
    /\ UNCHANGED <<srvVars, chunkVars, genStats, request, vector_found, bm25_found, retrieval_results,
                   reranked_results, result, served, fuseVars, rerankVars,
                   genVars, bmVars>>

\* retrieve, step 2: the BM25 store is searched (passages named in the order
\* it returns them: identifiers are opaque)
Bm25Search ==
    /\ qpc = "bm25_search"
    /\ \E n \in 0..Min(Min(MaxHits, 4), retrieve_args.bm25_top_k) :
          bm25_found' = Bm25Results(SubSeq(<<"A", "B", "C", "D">>, 1, n))
    /\ events' = Append(events, "bm25_search")
    /\ qpc' = "fuse"
    /\ UNCHANGED <<srvVars, chunkVars, genStats, request, vector_found, retrieval_results, retrieve_args,
                   reranked_results, result, response, served, fuseVars, rerankVars,
                   genVars, bmVars>>

\* retrieve, step 3, and the early return of query_rag
FuseResults ==
    /\ qpc = "fuse"
    /\ \E order \in IterationOrders(AllIds(vector_found, bm25_found)) :
          LET fused == Fuse(vector_found, bm25_found, retrieve_args.top_k, RRF_K,
                            DefaultWeight, DefaultWeight, order)
          IN  /\ retrieval_results' = fused
              /\ IF NothingRetrieved(fused)
                 THEN /\ response' = NoDocsResponse
                      /\ qpc' = "done"
                      /\ UNCHANGED rAttempt
                 ELSE /\ qpc' = "rerank"
                      /\ rAttempt' = 1
                      /\ UNCHANGED response
    /\ events' = Append(events, "fuse")
    /\ UNCHANGED <<srvVars, chunkVars, genStats, request, vector_found, bm25_found, retrieve_args,
                   reranked_results, result, served, fuseVars, rrStats, rerankCallVars,
                   genVars, bmVars>>

\* step 2 of query_rag: one attempt of the wrapped reranker.rerank
RerankResults ==
    /\ qpc = "rerank"
    /\ \E svc \in ServiceOutcomes(retrieval_results, EffectiveTopN(request.top_k)) :
          LET b == RerankBody(retrieval_results, request.top_k, svc, rrStats)
              called == IF rAttempt = 1 THEN <<"rerank">> ELSE <<>>
              invoked == IF ~b.invoked THEN <<>>
                         ELSE IF svc.ok THEN <<"rerank_service">>
                         ELSE <<"rerank_service_failed">>
          IN  /\ rrStats' = b.stats
              /\ IF RetryAgain(b.raised, rAttempt)
                 THEN /\ rAttempt' = rAttempt + 1
                      /\ events' = events \o called \o invoked
                      /\ UNCHANGED <<qpc, reranked_results, response>>
                 ELSE IF b.raised
                 THEN /\ response' = ServerError
                      /\ qpc' = "done"
                      /\ events' = events \o called \o invoked
                      /\ UNCHANGED <<rAttempt, reranked_results>>
                 ELSE /\ reranked_results' = b.value
                      /\ qpc' = "generate"
                      /\ events' = events \o called \o invoked \o <<"rerank_returned">>
                      /\ UNCHANGED <<rAttempt, response>>
    /\ UNCHANGED <<srvVars, chunkVars, genStats, request, vector_found, bm25_found, retrieval_results, retrieve_args,
                   result, served, fuseVars, rerankCallVars,
                   genVars, bmVars>>

\* steps 3 and 4 of query_rag: the generator is called and the response built
GenerateAnswer ==
    /\ qpc = "generate"
    /\ \E llm \in LlmOutcomes :
          LET g == IF request.include_confidence
                   THEN GenerateWithConfidence(reranked_results, llm, genStats)
                   ELSE Generate(reranked_results, llm, genStats)
              invoked == IF ~g.invoked THEN <<>>
                         ELSE IF llm.ok THEN <<"llm">> ELSE <<"llm_failed">>
          IN  /\ result' = g.result
              /\ genStats' = g.stats
              /\ response' = BuildResponse(g.result)
              /\ events' = events \o <<"generate">> \o invoked
    /\ qpc' = "done"
    /\ UNCHANGED <<srvVars, chunkVars, request, vector_found, bm25_found, retrieval_results, retrieve_args,
                   reranked_results, served, fuseVars, rerankVars,
                   genVars, bmVars>>

Next ==
    \/ ReceiveQuery
    \/ VectorSearch
    \/ VectorSearchFails
    \/ Bm25Search
    \/ FuseResults
    \/ RerankResults
    \/ GenerateAnswer

Spec == Init /\ [][Next]_vars

(***************************************************************************)
(* BM25Store and its harness: one store; build_index, search, save_index   *)
(* and load_index are called in any order.  The corpus is named in         *)
(* insertion order; what get_scores gives a query is any score per         *)
(* document.                                                               *)
(***************************************************************************)
MaxCorpus == 3             \* most documents handed to build_index
MaxSearchTopK == 3         \* largest top_k of a search
Bm25Scores == {0, 1, 2}    \* scores BM25Okapi.get_scores may give a document

Corpora == {SubSeq(<<"A", "B", "C", "D", "E">>, 1, n) : n \in 0..Min(MaxCorpus, 5)}

\* [self._tokenize(doc.page_content) for doc in documents]
Tokenize(docs) == [i \in 1..Len(docs) |-> [tokens_of |-> docs[i]]]

\* build_index: the store after the call
BuildIndex(store, new_docs) ==
    IF new_docs = <<>> THEN store
    ELSE [bm25 |-> BM25Okapi(Tokenize(new_docs)), documents |-> new_docs,
          tokenized_corpus |-> Tokenize(new_docs)]

\* the dict save_index pickles
IndexData(store) ==
    [bm25 |-> store.bm25, documents |-> store.documents,
     tokenized_corpus |-> store.tokenized_corpus]

\* a file holding the pickle of d
PickleOf(d) == [kind |-> "pickle", data |-> d]

\* a file pickle.load cannot read (cut short, or no pickle at all)
Unreadable == [kind |-> "unreadable"]

\* save_index: nothing without an index; else the file is opened for
\* writing, which empties it, and the dict is dumped.  `io` is what the
\* file system does: "ok", "open_fails" (the file is left as it was) or
\* "dump_fails" (the file is left cut short); both failures are re-raised.
SaveIndex(store, file, io) ==
    IF ~store.bm25.built THEN [raised |-> FALSE, file |-> file]
    ELSE IF io = "ok" THEN [raised |-> FALSE, file |-> PickleOf(IndexData(store))]
    ELSE IF io = "open_fails" THEN [raised |-> TRUE, file |-> file]
    ELSE [raised |-> TRUE, file |-> Unreadable]

\* load_index: False when there is no file; else the three fields are
\* assigned one after another from the unpickled dict, and any exception on
\* the way (pickle.load failing, a key the dict lacks) ends the call with
\* False, the assignments made so far staying
LoadIndex(store, file) ==
    IF file.kind # "pickle" THEN [returned |-> FALSE, store |-> store]
    ELSE LET d == file.data
             s1 == [store EXCEPT !.bm25 = d.bm25]
             s2 == [s1 EXCEPT !.documents = d.documents]
             s3 == [s2 EXCEPT !.tokenized_corpus = d.tokenized_corpus]
         IN  IF "bm25" \notin DOMAIN d THEN [returned |-> FALSE, store |-> store]
             ELSE IF "documents" \notin DOMAIN d THEN [returned |-> FALSE, store |-> s1]
             ELSE IF "tokenized_corpus" \notin DOMAIN d
             THEN [returned |-> FALSE, store |-> s2]
             ELSE [returned |-> TRUE, store |-> s3]

\* scores.argsort(): the indices (zero-based) in ascending order of score;
\* numpy's default sort is not stable, equal scores come in any order
ArgsortOrders(scores) ==
    {order \in IterationOrders(0..(Len(scores) - 1)) :
        \A i, j \in 1..Len(order) :
            i < j => scores[order[i] + 1] <= scores[order[j] + 1]}

\* a[-k:] of Python: the last k elements, all of them when k is 0
LastK(a, k) ==
    IF k = 0 \/ k >= Len(a) THEN a ELSE SubSeq(a, Len(a) - k + 1, Len(a))

\* a[::-1]
Reversed(a) == [i \in 1..Len(a) |-> a[Len(a) + 1 - i]]

RECURSIVE SearchResults(_, _, _)
SearchResults(docs, scores, top_indices) ==
    IF top_indices = <<>> THEN <<>>
    ELSE LET idx == Head(top_indices)
         IN  (IF scores[idx + 1] > 0
              THEN <<[id |-> docs[idx + 1], score |-> scores[idx + 1]]>>
              ELSE <<>>)
             \o SearchResults(docs, scores, Tail(top_indices))

\* search on a built index, `order` being what argsort gave
SearchBuilt(docs, scores, order, top_k) ==
    SearchResults(docs, scores, Reversed(LastK(order, top_k)))

\* the store of the harness, as one record
TheStore ==
    [bm25 |-> bm25_index, documents |-> store_documents,
     tokenized_corpus |-> tokenized_corpus]

\* what may lie at index_path when the store is created: nothing, a file
\* that is no readable pickle, the snapshot an earlier save_index wrote, or
\* a pickled dict that lacks one of the three keys
SnapshotCorpus == <<"A", "B">>
SavedSnapshot == IndexData(BuildIndex(NewStore, SnapshotCorpus))
Without(d, key) == [f \in DOMAIN d \ {key} |-> d[f]]
FoundFiles ==
    {NoFile, Unreadable, PickleOf(SavedSnapshot)}
    \cup {PickleOf(Without(SavedSnapshot, key)) : key \in DOMAIN SavedSnapshot}

Bm25Init ==
    /\ bm25_index = NoBm25 /\ store_documents = <<>> /\ tokenized_corpus = <<>>
    /\ index_file \in FoundFiles
    /\ bpc = "ready" /\ bIn = [op |-> "none"] /\ bOut = <<>>
    /\ QueryIdle
    /\ RerankIdle
    /\ FuseIdle
    /\ GenIdle
    /\ ServerIdle
    /\ ChunkIdle

CallBuildIndex ==
    /\ bpc # "off"
    /\ \E new_docs \in Corpora :
          LET b == BuildIndex(TheStore, new_docs)
          IN  /\ bm25_index' = b.bm25
              /\ store_documents' = b.documents
              /\ tokenized_corpus' = b.tokenized_corpus
              /\ bIn' = [op |-> "build_index", documents |-> new_docs]
    /\ bOut' = <<>>
    /\ bpc' = "returned"
    /\ UNCHANGED <<srvVars, chunkVars, index_file, queryVars, fuseVars, rerankVars, genVars>>

\* search before an index exists: ValueError("Index not built...")
CallSearchUnbuilt ==
    /\ bpc # "off"
    /\ ~bm25_index.built
    /\ \E top_k \in 0..MaxSearchTopK : bIn' = [op |-> "search", top_k |-> top_k]
    /\ bOut' = <<>>
    /\ bpc' = "raised"
    /\ UNCHANGED <<srvVars, chunkVars, bm25_index, store_documents, tokenized_corpus, index_file,
                   queryVars, fuseVars, rerankVars, genVars>>

\* search on a store whose index and documents agree in length (on another
\* store self.documents[idx] may raise IndexError)
CallSearch ==
    /\ bpc # "off"
    /\ bm25_index.built
    /\ Len(bm25_index.corpus) = Len(store_documents)
    /\ \E top_k \in 0..MaxSearchTopK, scores \in [1..Len(store_documents) -> Bm25Scores] :
       \E order \in ArgsortOrders(scores) :
          /\ bIn' = [op |-> "search", top_k |-> top_k, scores |-> scores]
          /\ bOut' = SearchBuilt(store_documents, scores, order, top_k)
    /\ bpc' = "returned"
    /\ UNCHANGED <<srvVars, chunkVars, bm25_index, store_documents, tokenized_corpus, index_file,
                   queryVars, fuseVars, rerankVars, genVars>>

CallSaveIndex ==
    /\ bpc # "off"
    /\ \E io \in {"ok", "open_fails", "dump_fails"} :
          LET sv == SaveIndex(TheStore, index_file, io)
          IN  /\ index_file' = sv.file
              /\ bpc' = IF sv.raised THEN "raised" ELSE "returned"
              /\ bIn' = [op |-> "save_index", io |-> io]
    /\ bOut' = <<>>
    /\ UNCHANGED <<srvVars, chunkVars, bm25_index, store_documents, tokenized_corpus,
                   queryVars, fuseVars, rerankVars, genVars>>

CallLoadIndex ==
    /\ bpc # "off"
    /\ LET ld == LoadIndex(TheStore, index_file)
       IN  /\ bm25_index' = ld.store.bm25
           /\ store_documents' = ld.store.documents
           /\ tokenized_corpus' = ld.store.tokenized_corpus
           /\ bIn' = [op |-> "load_index", returned |-> ld.returned]
    /\ bOut' = <<>>
    /\ bpc' = "returned"
    /\ UNCHANGED <<srvVars, chunkVars, index_file, queryVars, fuseVars, rerankVars, genVars>>

Bm25Next ==
    \/ CallBuildIndex
    \/ CallSearchUnbuilt
    \/ CallSearch
    \/ CallSaveIndex
    \/ CallLoadIndex

SpecBm25 == Bm25Init /\ [][Bm25Next]_vars

(***************************************************************************)
(* The server: the module-level component references of routes.py and the  *)
(* /ingest, /query and /health routes that write and read them.  Objects   *)
(* are numbered: a BM25Store and a HybridRetriever by their place in       *)
(* sparse_stores and retrievers, a pipeline, vector store, reranker and    *)
(* generator by the number of the ingest that created it.                  *)
(*                                                                         *)
(* Scheduling.  The routes are coroutines that await nothing, so the event *)
(* loop runs each request to its end before the next.  The model allows    *)
(* more: one ingest and one query are in flight at a time and their steps  *)
(* interleave freely, as they would on threads.  Each request records      *)
(* whether it ran alone (quiescent), and /health runs between requests.    *)
(***************************************************************************)
MaxIngests == 2            \* /ingest requests served
MaxServerQueries == 1      \* /query requests served

\* the documents the n-th ingest's pipeline returns when it returns any: a
\* different corpus for every ingest
IngestedCorpus(n) == SubSeq(<<"A", "B", "C", "D", "E">>, 1, Min(n + 1, 5))

NotInitialized == [status |-> 503, detail |-> "System not initialized. Run /ingest first."]
DirectoryNotFound == [status |-> 404, detail |-> "Directory not found"]
IngestSuccess == [status |-> 200, body |-> "success"]
IngestNothingProcessed ==
    [status |-> 200, body |-> "error", message |-> "No documents were processed"]

\* `except Exception as e` of ingest_documents: whatever was raised inside
\* the try, an HTTPException included, is answered 500
IngestExcept(e) == [status |-> 500, detail |-> "Ingestion failed", cause |-> e]

\* get_dependencies
GetDependencies(g) ==
    IF g.pipeline = 0 THEN [raised |-> TRUE, response |-> NotInitialized]
    ELSE [raised |-> FALSE, deps |-> g]

\* IngestStoreId handing out the store already published, if there is one
IngestStoreIdReused(g, stores) ==
    IF g.bm25_store # 0 THEN g.bm25_store ELSE Len(stores) + 1

\* `_bm25_store = BM25Store()`: a new object
IngestStoreId(g, stores) == Len(stores) + 1

\* the ingest request ends
IngestEnds(resp, ok) ==
    [ingest EXCEPT !.pc = "idle", !.response = resp,
                   !.succeeded = IF ok THEN @ + 1 ELSE @]

QueryAlone == query.pc \in {"idle", "done"}
IngestAlone == ingest.pc = "idle"

ingestFrame == <<chunkVars, fuseVars, rerankVars, queryVars, genVars, bmVars, health>>

\* an /ingest request arrives
IngestStart ==
    /\ ingest.pc = "idle"
    /\ ingest.n < MaxIngests
    /\ \E exists \in BOOLEAN :
          ingest' = [pc |-> "check", n |-> ingest.n + 1, succeeded |-> ingest.succeeded,
                     directory_exists |-> exists, embedded_documents |-> <<>>,
                     before |-> globals, response |-> [status |-> 0]]
    /\ query' = [query EXCEPT !.quiescent = @ /\ QueryAlone]
    /\ UNCHANGED <<globals, sparse_stores, retrievers, ingestFrame>>

\* lines 108-113: HTTPException(404) is raised inside the try
IngestCheckDirectory ==
    /\ ingest.pc = "check"
    /\ ingest' = IF ingest.directory_exists THEN [ingest EXCEPT !.pc = "pipeline"]
                 ELSE IngestEnds(IngestExcept(DirectoryNotFound.status), FALSE)
    /\ UNCHANGED <<globals, sparse_stores, retrievers, query, ingestFrame>>

\* line 128: _pipeline = IngestionPipeline(...)
IngestCreatePipeline ==
    /\ ingest.pc = "pipeline"
    /\ globals' = [globals EXCEPT !.pipeline = ingest.n]
    /\ ingest' = [ingest EXCEPT !.pc = "process"]
    /\ UNCHANGED <<sparse_stores, retrievers, query, ingestFrame>>

\* lines 133-144: process_directory raises, returns nothing, or returns the
\* embedded documents
IngestProcess ==
    /\ ingest.pc = "process"
    /\ \E outcome \in {"raises", "nothing", "documents"} :
          ingest' = IF outcome = "raises" THEN IngestEnds(IngestExcept("process_directory"), FALSE)
                    ELSE IF outcome = "nothing" THEN IngestEnds(IngestNothingProcessed, FALSE)
                    ELSE [ingest EXCEPT !.pc = "vector_store",
                                        !.embedded_documents = IngestedCorpus(ingest.n)]
    /\ UNCHANGED <<globals, sparse_stores, retrievers, query, ingestFrame>>

\* line 147: _vector_store = PineconeVectorStore(), which connects to the
\* service and may raise
IngestCreateVectorStore ==
    /\ ingest.pc = "vector_store"
    /\ \/ /\ globals' = [globals EXCEPT !.vector_store = ingest.n]
          /\ ingest' = [ingest EXCEPT !.pc = "bm25_store"]
       \/ /\ ingest' = IngestEnds(IngestExcept("PineconeVectorStore"), FALSE)
          /\ UNCHANGED globals
    /\ UNCHANGED <<sparse_stores, retrievers, query, ingestFrame>>

\* line 148: _bm25_store = BM25Store()
IngestCreateSparseStore ==
    /\ ingest.pc = "bm25_store"
    /\ LET id == IngestStoreId(globals, sparse_stores)
       IN  /\ sparse_stores' = IF id > Len(sparse_stores)
                               THEN Append(sparse_stores, NewStore) ELSE sparse_stores
           /\ globals' = [globals EXCEPT !.bm25_store = id]
    /\ ingest' = [ingest EXCEPT !.pc = "upsert"]
    /\ UNCHANGED <<retrievers, query, ingestFrame>>

\* line 152: _vector_store.upsert_documents(embedded_documents)
IngestUpsert ==
    /\ ingest.pc = "upsert"
    /\ \/ ingest' = [ingest EXCEPT !.pc = "build_documents"]
       \/ ingest' = IngestEnds(IngestExcept("upsert_documents"), FALSE)
    /\ UNCHANGED <<globals, sparse_stores, retrievers, query, ingestFrame>>

\* line 155, _bm25_store.build_index(embedded_documents), statement by
\* statement: self.documents = documents
IngestBuildDocuments ==
    /\ ingest.pc = "build_documents"
    /\ sparse_stores' = [sparse_stores EXCEPT ![globals.bm25_store].documents =
                            ingest.embedded_documents]
    /\ ingest' = [ingest EXCEPT !.pc = "build_tokens"]
    /\ UNCHANGED <<globals, retrievers, query, ingestFrame>>

\* self.tokenized_corpus = [self._tokenize(...) for doc in documents]
IngestBuildTokens ==
    /\ ingest.pc = "build_tokens"
    /\ sparse_stores' = [sparse_stores EXCEPT ![globals.bm25_store].tokenized_corpus =
                            Tokenize(ingest.embedded_documents)]
    /\ ingest' = [ingest EXCEPT !.pc = "build_bm25"]
    /\ UNCHANGED <<globals, retrievers, query, ingestFrame>>

\* self.bm25 = BM25Okapi(self.tokenized_corpus)
IngestBuildBm25 ==
    /\ ingest.pc = "build_bm25"
    /\ sparse_stores' = [sparse_stores EXCEPT ![globals.bm25_store].bm25 =
                            BM25Okapi(sparse_stores[globals.bm25_store].tokenized_corpus)]
    /\ ingest' = [ingest EXCEPT !.pc = "save"]
    /\ UNCHANGED <<globals, retrievers, query, ingestFrame>>

\* line 156: _bm25_store.save_index(), which re-raises a failed write
IngestSaveIndex ==
    /\ ingest.pc = "save"
    /\ \/ ingest' = [ingest EXCEPT !.pc = "retriever"]
       \/ ingest' = IngestEnds(IngestExcept("save_index"), FALSE)
    /\ UNCHANGED <<globals, sparse_stores, retrievers, query, ingestFrame>>

\* lines 160-164: _hybrid_retriever = HybridRetriever(vector_store=_vector_store,
\* bm25_store=_bm25_store, embedder=embedder)
IngestPublishRetriever ==
    /\ ingest.pc = "retriever"
    /\ retrievers' = Append(retrievers, [vector_store |-> globals.vector_store,
                                         bm25_store |-> globals.bm25_store])
    /\ globals' = [globals EXCEPT !.hybrid_retriever = Len(retrievers) + 1]
    /\ ingest' = [ingest EXCEPT !.pc = "reranker"]
    /\ UNCHANGED <<sparse_stores, query, ingestFrame>>

\* line 166: _reranker = CohereReranker()
IngestPublishReranker ==
    /\ ingest.pc = "reranker"
    /\ globals' = [globals EXCEPT !.reranker = ingest.n]
    /\ ingest' = [ingest EXCEPT !.pc = "generator"]
    /\ UNCHANGED <<sparse_stores, retrievers, query, ingestFrame>>

\* lines 167-183: _generator = RAGGenerator(), and the success response
IngestPublishGenerator ==
    /\ ingest.pc = "generator"
    /\ globals' = [globals EXCEPT !.generator = ingest.n]
    /\ ingest' = IngestEnds(IngestSuccess, TRUE)
    /\ UNCHANGED <<sparse_stores, retrievers, query, ingestFrame>>

queryFrame == <<chunkVars, fuseVars, rerankVars, queryVars, genVars, bmVars, health,
                globals, sparse_stores, retrievers, ingest>>

QueryEnds(resp) == [query EXCEPT !.pc = "done", !.response = resp]

\* a /query request arrives: Depends(get_dependencies)
QueryStart ==
    /\ query.pc \in {"idle", "done"}
    /\ query.n < MaxServerQueries
    /\ LET dp == GetDependencies(globals)
           q == [NoQuery EXCEPT !.n = query.n + 1, !.quiescent = IngestAlone,
                                !.initialized = ingest.succeeded > 0]
       IN  query' = IF dp.raised THEN [q EXCEPT !.pc = "done", !.response = dp.response]
                    ELSE [q EXCEPT !.pc = "retrieve", !.deps = dp.deps]
    /\ UNCHANGED queryFrame

\* hybrid_retriever.retrieve(...): AttributeError when the reference is
\* None; else the dense search, which may raise
QueryRetrieve ==
    /\ query.pc = "retrieve"
    /\ IF query.deps.hybrid_retriever = 0
       THEN query' = QueryEnds(ServerError)
       ELSE \/ query' = [query EXCEPT !.pc = "bm25_check",
                            !.store = retrievers[query.deps.hybrid_retriever].bm25_store]
            \/ query' = QueryEnds(ServerError)
    /\ UNCHANGED queryFrame

\* BM25Store.search, lines 99-105: `if self.bm25 is None: raise`, else the
\* scores are taken from self.bm25
QuerySearchScores ==
    /\ query.pc = "bm25_check"
    /\ query' = IF ~sparse_stores[query.store].bm25.built THEN QueryEnds(ServerError)
                ELSE [query EXCEPT !.pc = "bm25_documents",
                                   !.seen_bm25 = sparse_stores[query.store].bm25]
    /\ UNCHANGED queryFrame

\* BM25Store.search, lines 112-121: the results are taken from
\* self.documents
QuerySearchDocuments ==
    /\ query.pc = "bm25_documents"
    /\ query' = [query EXCEPT !.pc = "rest",
                              !.seen_documents = sparse_stores[query.store].documents]
    /\ UNCHANGED queryFrame

\* fusion, rerank, generation and the response: AttributeError when the
\* reranker or the generator is None, else what the route of Spec answers
QueryRest ==
    /\ query.pc = "rest"
    /\ IF query.deps.reranker = 0 \/ query.deps.generator = 0
       THEN query' = QueryEnds(ServerError)
       ELSE \E st \in {200, 500} :
               query' = QueryEnds(IF st = 200 THEN [status |-> 200] ELSE ServerError)
    /\ UNCHANGED queryFrame

\* health_check: the components dict and the overall status; `vs` is what
\* _vector_store.get_index_stats() does
HealthResponse(g, stores, vs) ==
    IF g.vector_store # 0 /\ vs = "raises"
    THEN [status |-> "unhealthy", components |-> [error |-> "get_index_stats"]]
    ELSE LET components ==
                 [vector_store |-> IF g.vector_store = 0 THEN "not_initialized"
                                   ELSE IF vs = "stats" THEN "healthy" ELSE "unhealthy",
                  bm25_store |-> IF g.bm25_store = 0 THEN "not_initialized"
                                 ELSE IF stores[g.bm25_store].bm25.built THEN "healthy"
                                 ELSE "unhealthy",
                  generator |-> IF g.generator = 0 THEN "not_initialized" ELSE "healthy"]
             values == {components[c] : c \in DOMAIN components}
         IN  [status |-> IF values = {"healthy"} THEN "healthy"
                         ELSE IF "unhealthy" \in values THEN "unhealthy"
                         ELSE "degraded",
              components |-> components]

\* a /health request, served between the other requests
HealthCheck ==
    /\ IngestAlone
    /\ QueryAlone
    /\ \E vs \in {"stats", "empty", "raises"} :
          health' = HealthResponse(globals, sparse_stores, vs)
    /\ UNCHANGED <<chunkVars, fuseVars, rerankVars, queryVars, genVars, bmVars,
                   globals, sparse_stores, retrievers, ingest, query>>

ServerInit ==
    /\ ServerIdle
    /\ ChunkIdle
    /\ QueryIdle
    /\ RerankIdle
    /\ FuseIdle
    /\ GenIdle
    /\ Bm25Idle

ServerNext ==
    \/ IngestStart
    \/ IngestCheckDirectory
    \/ IngestCreatePipeline
    \/ IngestProcess
    \/ IngestCreateVectorStore
    \/ IngestCreateSparseStore
    \/ IngestUpsert
    \/ IngestBuildDocuments
    \/ IngestBuildTokens
    \/ IngestBuildBm25
    \/ IngestSaveIndex
    \/ IngestPublishRetriever
    \/ IngestPublishReranker
    \/ IngestPublishGenerator
    \/ QueryStart
    \/ QueryRetrieve
    \/ QuerySearchScores
    \/ QuerySearchDocuments
    \/ QueryRest
    \/ HealthCheck

SpecServer == ServerInit /\ [][ServerNext]_vars

(***************************************************************************)
(* SemanticChunker and its harness: chunk_documents is called on a list of *)
(* documents as the loaders produce them.  A page_content is a string, a   *)
(* chunk text is a part of one; what RecursiveCharacterTextSplitter makes  *)
(* of a text (how many chunks, or an exception) is any outcome.            *)
(***************************************************************************)
MaxChunkDocs == 3          \* most documents handed to chunk_documents
MaxPieces == 2             \* most chunks the splitter makes of one text

WhitespaceOnly == {"", "  \n  "}
PageContents == WhitespaceOnly \cup {"Capital is 8%. Liquidity is 100%."}
LoaderMetadata == {[source |-> "test.pdf", page |-> 1], [source |-> "notes.txt"]}
LoadedDocuments == [page_content : PageContents, metadata : LoaderMetadata]

\* the i-th chunk text the splitter cuts from a text
ChunkText(text, i) == [of |-> text, part |-> i]

\* _count_tokens(chunk_text) and len(chunk_text)
CountTokens(chunk_text) == 8 - chunk_text.part
CharsOf(chunk_text) == 40 - chunk_text.part

\* self.text_splitter.split_text(text): raises, or gives n chunk texts
SplitOutcomes(text) ==
    {[raises |-> TRUE, chunks |-> <<>>]} \cup
    {[raises |-> FALSE, chunks |-> [i \in 1..n |-> ChunkText(text, i)]] :
        n \in 0..MaxPieces}

\* `not document.page_content.strip()`
IsBlank(page_content) == page_content \in WhitespaceOnly

\* ChunkMetadata without the clone of the document's metadata
ChunkMetadataFresh(metadata, i, chunks) ==
    [chunk_index |-> i - 1, total_chunks |-> Len(chunks),
     chunk_tokens |-> CountTokens(chunks[i]), chunk_chars |-> CharsOf(chunks[i])]

\* chunk_metadata = document.metadata.copy(); chunk_metadata.update({...})
\* for the i-th (from 1) of the chunks
ChunkMetadata(metadata, i, chunks) ==
    LET added == [chunk_index |-> i - 1, total_chunks |-> Len(chunks),
                  chunk_tokens |-> CountTokens(chunks[i]),
                  chunk_chars |-> CharsOf(chunks[i])]
    IN  [key \in DOMAIN metadata \cup DOMAIN added |->
            IF key \in DOMAIN added THEN added[key] ELSE metadata[key]]

\* _chunk_single_document, `split` being what the splitter does
ChunkSingleDocument(document, split) ==
    IF IsBlank(document.page_content) THEN [raised |-> FALSE, chunks |-> <<>>]
    ELSE IF split.raises THEN [raised |-> TRUE, chunks |-> <<>>]
    ELSE [raised |-> FALSE,
          chunks |-> [i \in 1..Len(split.chunks) |->
                         [page_content |-> split.chunks[i],
                          metadata |-> ChunkMetadata(document.metadata, i, split.chunks)]]]

\* chunk_documents: the chunks of the documents in order, a document whose
\* chunking raised being skipped
RECURSIVE ChunkDocuments(_, _)
ChunkDocuments(documents, splits) ==
    IF documents = <<>> THEN <<>>
    ELSE LET c == ChunkSingleDocument(Head(documents), Head(splits))
         IN  (IF c.raised THEN <<>> ELSE c.chunks)
             \o ChunkDocuments(Tail(documents), Tail(splits))

RECURSIVE DocumentLists(_)
DocumentLists(n) ==
    IF n = 0 THEN {<<>>}
    ELSE LET shorter == DocumentLists(n - 1)
         IN  shorter \cup {Append(l, doc) : l \in {x \in shorter : Len(x) = n - 1},
                                            doc \in LoadedDocuments}

\* what the splitter does with each of the documents; it is not called on
\* a document without text, for which the outcome is written as no chunks
RECURSIVE SplitLists(_)
SplitLists(documents) ==
    IF documents = <<>> THEN {<<>>}
    ELSE {<<sp>> \o rest :
             sp \in IF IsBlank(Head(documents).page_content)
                    THEN {[raises |-> FALSE, chunks |-> <<>>]}
                    ELSE SplitOutcomes(Head(documents).page_content),
             rest \in SplitLists(Tail(documents))}

ChunkInit ==
    /\ cpc = "ready"
    /\ \E documents \in DocumentLists(MaxChunkDocs) :
       \E splits \in SplitLists(documents) :
          cIn = [documents |-> documents, splits |-> splits]
    /\ cOut = <<>>
    /\ ServerIdle
    /\ QueryIdle
    /\ RerankIdle
    /\ FuseIdle
    /\ GenIdle
    /\ Bm25Idle

CallChunkDocuments ==
    /\ cpc = "ready"
    /\ cOut' = ChunkDocuments(cIn.documents, cIn.splits)
    /\ cpc' = "returned"
    /\ UNCHANGED <<cIn, srvVars, fuseVars, rerankVars, queryVars, genVars, bmVars>>

ChunkNext == CallChunkDocuments

SpecChunk == ChunkInit /\ [][ChunkNext]_vars

(***************************************************************************)
(* Properties of fusion (checked under SpecFuse).  The specification's     *)
(* "sparse" list is bm25_results with bm25_weight, its "dense" list is      *)
(* vector_results with vector_weight.                                      *)
(***************************************************************************)
\* zero-based position of id in a list it occurs in
ZeroBasedRank(list, id) == CHOOSE r \in 0..(Len(list) - 1) : list[r + 1].id = id

\* weight_sparse/(k + rank_sparse + 1) + weight_dense/(k + rank_dense + 1),
\* a term omitted when the id is absent from that list
\* a fuse call has been made on the retriever
FuseRan == fpc \in {"fused", "repeated", "swapped"}

FusedScoreOf(sparse, dense, ws, wd, k, id) ==
    LET inS == id \in IdsOf(sparse)
        inD == id \in IdsOf(dense)
        ds == k + ZeroBasedRank(sparse, id) + 1
        dd == k + ZeroBasedRank(dense, id) + 1
    IN  IF inS /\ inD THEN [num |-> ws * dd + wd * ds, den |-> 10 * ds * dd]
        ELSE IF inS THEN [num |-> ws, den |-> 10 * ds]
        ELSE IF inD THEN [num |-> wd, den |-> 10 * dd]
        ELSE RatZero

ExpectedScore(id) ==
    FusedScoreOf(fIn.bm25, fIn.vector, fIn.bm25_weight, fIn.vector_weight, RRF_K, id)

UniqueIds == IdsOf(fIn.bm25) \cup IdsOf(fIn.vector)

\* C1: fuse returns min(topK, number of unique ids) results, no id twice,
\* each carrying the fused score of the formula, in descending score order,
\* and no omitted id scores higher than a returned one.
C1_FuseContract ==
    FuseRan =>
        /\ Len(fOut) = Min(fIn.top_k, Cardinality(UniqueIds))
        /\ DupFree(IdSeq(fOut))
        /\ \A i \in 1..Len(fOut) :
              /\ fOut[i].id \in UniqueIds
              /\ RatEq(fOut[i].rrf_score, ExpectedScore(fOut[i].id))
        /\ \A i, j \in 1..Len(fOut) :
              i < j => ~RatLess(fOut[i].rrf_score, fOut[j].rrf_score)
        /\ \A id \in UniqueIds \ IdsOf(fOut) : \A i \in 1..Len(fOut) :
              ~RatLess(ExpectedScore(fOut[i].id), ExpectedScore(id))

\* a call that cuts the ranking: unequal weights, an id in both lists and an
\* id in one list only among the results, at least one id left out
C1_Witness ==
    /\ fpc = "fused"
    /\ fIn.bm25_weight # fIn.vector_weight
    /\ Len(fOut) >= 2
    /\ Len(fOut) < Cardinality(UniqueIds)
    /\ \E i \in 1..Len(fOut) : fOut[i].in_vector /\ fOut[i].in_bm25
    /\ \E i \in 1..Len(fOut) : ~(fOut[i].in_vector /\ fOut[i].in_bm25)

\* first-seen order of the sparse-then-dense merge
MergeOrder == IdSeq(fIn.bm25) \o SelectSeq(IdSeq(fIn.vector), LAMBDA x : x \notin IdsOf(fIn.bm25))
MergePos(id) == CHOOSE p \in 1..Len(MergeOrder) : MergeOrder[p] = id

IsScenario ==
    /\ IdSeq(fIn.bm25) = <<"A", "B", "C">>
    /\ IdSeq(fIn.vector) = <<"C", "A", "D">>
    /\ fIn.bm25_weight = 5 /\ fIn.vector_weight = 5
    /\ fIn.top_k = 4

\* C2 (as stated): equal fused scores are ordered by first appearance in the
\* sparse-then-dense merge, and the scenario [A,B,C] / [C,A,D] fuses to
\* A, C, B, D on every call.
C2_TiesByInputOrder ==
    /\ FuseRan =>
          /\ \A i, j \in 1..Len(fOut) :
                (i < j /\ RatEq(fOut[i].rrf_score, fOut[j].rrf_score))
                    => MergePos(fOut[i].id) < MergePos(fOut[j].id)
          /\ IsScenario => IdSeq(fOut) = <<"A", "C", "B", "D">>
    /\ (fpc = "repeated" /\ IsScenario) => IdSeq(fOut2) = <<"A", "C", "B", "D">>

\* C3 (as stated): a repeated call, and a call with lists and weights
\* swapped, return the same ids in the same order as the first call.
C3_SameRanking ==
    fpc \in {"repeated", "swapped"} => IdSeq(fOut2) = IdSeq(fOut)

\* C4 (as stated): the payload of an id present in both lists is the sparse
\* list's; the dense payload is used only for ids absent from the sparse list.
C4_SparsePayloadFirst ==
    FuseRan =>
        \A i \in 1..Len(fOut) :
            [id |-> fOut[i].id, source |-> fOut[i].source] =
                IF fOut[i].id \in IdsOf(fIn.bm25)
                THEN fIn.bm25[ZeroBasedRank(fIn.bm25, fOut[i].id) + 1]
                ELSE fIn.vector[ZeroBasedRank(fIn.vector, fOut[i].id) + 1]

\* C4 (amended): the payload of an id present in both lists is the dense
\* list's; the sparse payload is used only for ids absent from the dense list.
C4_DensePayloadFirst ==
    FuseRan =>
        \A i \in 1..Len(fOut) :
            [id |-> fOut[i].id, source |-> fOut[i].source] =
                IF fOut[i].id \in IdsOf(fIn.vector)
                THEN fIn.vector[ZeroBasedRank(fIn.vector, fOut[i].id) + 1]
                ELSE fIn.bm25[ZeroBasedRank(fIn.bm25, fOut[i].id) + 1]

\* a result that both lists supplied, next to one only the sparse list did
C4_Witness ==
    /\ fpc = "fused"
    /\ \E i \in 1..Len(fOut) :
          fOut[i].id \in IdsOf(fIn.bm25) /\ fOut[i].id \in IdsOf(fIn.vector)
    /\ \E i \in 1..Len(fOut) :
          fOut[i].id \in IdsOf(fIn.bm25) /\ fOut[i].id \notin IdsOf(fIn.vector)

(***************************************************************************)
(* Properties of the reranker (checked under SpecRerank).                  *)
(***************************************************************************)
LastServiceCallFailed == rLog # <<>> /\ rLog[Len(rLog)] = "failed"

\* C9 (as stated): a failed service call is retried within the same rerank
\* call, up to 3 attempts in total, so the fallback is returned only after
\* the service has been invoked 3 times.
C9_FallbackOnlyAfterRetries ==
    (rpc = "returned" /\ LastServiceCallFailed) => Len(rLog) = StopAfterAttempt

\* relevance score of a result, 0 when it carries none
ScoreOrZero(doc) == IF "rerank_score" \in DOMAIN doc THEN doc.rerank_score ELSE 0

PositionIn(seq, x) == CHOOSE p \in 1..Len(seq) : seq[p] = x

\* C10: rerankWithThreshold never raises; every result it returns has a
\* relevance score (0 when absent) >= threshold; the results are results of
\* rerank in the order rerank produced them; nothing qualifying gives the
\* empty sequence; a failed service call with threshold > 0 gives the empty
\* sequence, not the fallback candidates.
C10_ThresholdFilter ==
    /\ rpc # "raised"
    /\ (rpc = "returned" /\ rIn.op = "rerank_with_threshold") =>
          /\ \A i \in 1..Len(rOut) :
                /\ ScoreOrZero(rOut[i]) >= rIn.threshold
                /\ \E p \in 1..Len(rRaw) : rRaw[p] = rOut[i]
          /\ \A i, j \in 1..Len(rOut) :
                i < j => PositionIn(rRaw, rOut[i]) < PositionIn(rRaw, rOut[j])
          /\ (\A p \in 1..Len(rRaw) : ScoreOrZero(rRaw[p]) < rIn.threshold)
                => rOut = <<>>
          /\ (LastServiceCallFailed /\ rIn.threshold > 0) => rOut = <<>>

\* the service failed for a non-empty candidate list, rerank fell back to the
\* candidates, and the threshold removed them all
C10_Witness ==
    /\ rpc = "returned"
    /\ rIn.op = "rerank_with_threshold"
    /\ rIn.threshold > 0
    /\ LastServiceCallFailed
    /\ Len(rRaw) >= 2
    /\ rOut = <<>>

\* the service answered and the threshold kept some results and removed others
C10_WitnessFiltered ==
    /\ rpc = "returned"
    /\ rIn.op = "rerank_with_threshold"
    /\ rLog = <<"ok">>
    /\ Len(rOut) >= 1
    /\ Len(rOut) < Len(rRaw)
    /\ \E i \in 1..Len(rOut) : ScoreOrZero(rOut[i]) = rIn.threshold

(***************************************************************************)
(* Properties of the /query route (checked under Spec).                    *)
(***************************************************************************)
Occurs(e) == \E p \in 1..Len(events) : events[p] = e
OccursBefore(e, p) == \E q \in 1..(p - 1) : events[q] = e

RerankerEvents == {"rerank", "rerank_service", "rerank_service_failed"}
GeneratorEvents == {"generate", "llm", "llm_failed"}

FusionCameOutEmpty == Occurs("fuse") /\ retrieval_results = <<>>

\* C5: the reranker (the component and its service) is called only after
\* both first-stage searches and fusion, and only on a non-empty fusion
\* result; the generator (the component and the language model) only after
\* rerank has returned; a request whose fusion result is empty is answered
\* without any of these calls.
C5_ShortCircuitAndOrder ==
    /\ \A p \in 1..Len(events) :
          /\ events[p] \in RerankerEvents =>
                /\ OccursBefore("vector_search", p)
                /\ OccursBefore("bm25_search", p)
                /\ OccursBefore("fuse", p)
                /\ retrieval_results # <<>>
          /\ events[p] \in GeneratorEvents => OccursBefore("rerank_returned", p)
    /\ FusionCameOutEmpty =>
          /\ qpc = "done"
          /\ response.status = 200
          /\ \A p \in 1..Len(events) :
                events[p] \notin RerankerEvents \cup GeneratorEvents

\* both searches found nothing and the request was answered
C5_Witness ==
    /\ qpc = "done"
    /\ FusionCameOutEmpty
    /\ events = <<"vector_search", "bm25_search", "fuse">>

\* C6 (as stated): with an empty fusion result the answer is the fixed
\* no-information text of the synthesizer, citations are empty and
\* confidence is 0.
C6_EmptyFusionAnswer ==
    (qpc = "done" /\ FusionCameOutEmpty) =>
        /\ response.status = 200
        /\ response.answer = GeneratorNoDocsAnswer
        /\ response.citations = <<>>
        /\ "confidence" \in DOMAIN response
        /\ response.confidence = RatZero

GenerateCalledWithNoPassages == qpc = "generate" /\ reranked_results = <<>>

\* C7: generate on an empty passage sequence returns the fixed answer with
\* empty citations and empty context, calls no language model and leaves the
\* statistics as they were; generate_with_confidence reports confidence 0
\* and level low.
C7_GenerateEmpty ==
    [][GenerateCalledWithNoPassages =>
          /\ result'.answer = GeneratorNoDocsAnswer
          /\ result'.citations = <<>>
          /\ result'.context_used = <<>>
          /\ genStats' = genStats
          /\ events' = Append(events, "generate")
          /\ request.include_confidence =>
                /\ "confidence" \in DOMAIN result'
                /\ result'.confidence = RatZero
                /\ result'.confidence_level = "low"]_vars

\* the reranker returned no passage and generate_with_confidence was called
C7_Witness ==
    /\ qpc = "done"
    /\ Occurs("generate")
    /\ reranked_results = <<>>
    /\ request.include_confidence
    /\ result.answer = GeneratorNoDocsAnswer
    /\ result.confidence = RatZero

\* C8 (as stated): when the reranker service call fails, rerank returns the
\* first topN of its input in input order, the route goes on to generation
\* and the request gets a non-error response.
C8_RerankFailureAbsorbed ==
    Occurs("rerank_service_failed") =>
        /\ qpc \in {"generate", "done"}
        /\ reranked_results = Prefix(retrieval_results, request.top_k)
        /\ qpc = "done" => (Occurs("generate") /\ response.status = 200)

\* C12 (as stated): when the language model call fails in a request that
\* retrieved and reranked at least one passage, the request is still
\* answered 200 with the apologetic answer.
C12_GenerationFailureAbsorbed ==
    (qpc = "done" /\ Occurs("llm_failed") /\ reranked_results # <<>>) =>
        /\ response.status = 200
        /\ response.answer = GenerationErrorAnswer

\* C13 (as stated): when the embedding step or the vector store query fails,
\* the request is not failed: it is answered 200, with the no-information
\* answer if no passage was found.
C13_DenseFailureDegrades ==
    (qpc = "done" /\ Occurs("vector_search_failed")) =>
        /\ response.status = 200
        /\ retrieval_results = <<>> => response.answer = RouteNoDocsAnswer

(***************************************************************************)
(* Properties of the generator (checked under SpecGen).                    *)
(***************************************************************************)
GenerateReturned == gpc = "returned" /\ gIn.op = "generate"

\* C11: when the language model call fails, generate returns the apologetic
\* answer with no citations and an error field, and total_generations and
\* both running averages stay as they were before the call.
C11_GenerationFailure ==
    [][(gpc = "ready" /\ gpc' = "returned" /\ gIn'.documents # <<>> /\ ~gIn'.llm.ok) =>
          /\ gOut'.answer = GenerationErrorAnswer
          /\ gOut'.citations = <<>>
          /\ "error" \in DOMAIN gOut'
          /\ genStats' = genStats]_vars

\* a failed call of a generator that has two generations on record
C11_Witness ==
    /\ GenerateReturned
    /\ gIn.documents # <<>>
    /\ ~gIn.llm.ok
    /\ gOut.answer = GenerationErrorAnswer
    /\ genStats.total_generations = 2

BlocksOf(docs) == [i \in 1..Len(docs) |-> BlockLength(i, docs[i])]

\* C14 (as stated): the context string is at most max_length long and is made
\* of the whole blocks of a prefix of the passages, ending before the first
\* block that would not fit.
C14_ContextWithinLimit ==
    gpc = "built" =>
        LET all == BlocksOf(gIn.documents)
            n == Len(gOut.parts)
        IN  /\ gOut.length <= gIn.max_length
            /\ n <= Len(all)
            /\ gOut.parts = SubSeq(all, 1, n)
            /\ n < Len(all) => SumSeq(gOut.parts) + all[n + 1] > gIn.max_length

ExplicitParts(answer) ==
    {i \in 1..Len(answer.parts) : answer.parts[i].form \in {"bracket", "paren"}}

\* C15: _extract_citations gives one explicit citation for each
\* "[Source: X, Page: Y]" and each "(Source: X)" of the answer and no other
\* citation when there is one; with none, it gives inferred citations for the
\* first min(3, number of passages) passages, in order.  The answer with
\* [Source: handbook.pdf, Page: 12] alone gives (handbook.pdf, 12, explicit).
C15_Citations ==
    gpc = "extracted" =>
        LET parts == gIn.answer.parts
            docs == gIn.documents
        IN  /\ ExplicitParts(gIn.answer) # {} =>
                  /\ Len(gOut) = Cardinality(ExplicitParts(gIn.answer))
                  /\ \A i \in 1..Len(gOut) : gOut[i].type = "explicit"
                  /\ \A p \in ExplicitParts(gIn.answer) : \E i \in 1..Len(gOut) :
                        /\ gOut[i].source = parts[p].source
                        /\ gOut[i].page =
                              IF parts[p].form = "bracket" THEN parts[p].page ELSE "N/A"
            /\ ExplicitParts(gIn.answer) = {} =>
                  /\ Len(gOut) = Min(3, Len(docs))
                  /\ \A i \in 1..Len(gOut) :
                        gOut[i] = [source |-> MetaSource(docs[i]),
                                   page |-> MetaPage(docs[i]), type |-> "inferred"]
            /\ gIn.answer = AnswerBracket =>
                  gOut = <<[source |-> "handbook.pdf", page |-> "12", type |-> "explicit"]>>

\* more passages than three, and an answer that names no source
C15_Witness ==
    /\ gpc = "extracted"
    /\ gIn.answer = AnswerNoPage
    /\ Len(gIn.documents) = 4
    /\ Len(gOut) = 3

ConfidenceReturned == GenerateReturned /\ gIn.with_confidence /\ gIn.documents # <<>>

\* 10 * m * (average score of the first m = min(3, n) passages + min(n/5, 0.2)
\* + 0.1 if cited), for passages with reranker scores in tenths
TenMTimesSum(docs, cited) ==
    LET m == Min(3, Len(docs))
    IN  SumSeq([i \in 1..m |-> docs[i].rerank_score])
        + m * (Min(2 * Len(docs), 2) + (IF cited THEN 1 ELSE 0))

LevelRank(level) == IF level = "low" THEN 0 ELSE IF level = "medium" THEN 1 ELSE 2

\* C17: with the same passages, the same citations and every relevance score
\* at least as high, the confidence and its level are at least as high.
C17_ConfidenceMonotone ==
    gpc = "compared" =>
        /\ ~RatLess(gOut2.confidence, gOut.confidence)
        /\ LevelRank(gOut.confidence_level) <= LevelRank(gOut2.confidence_level)

\* raised scores lifting the level from low to high
C17_Witness ==
    /\ gpc = "compared"
    /\ gIn.raised # gIn.documents
    /\ gOut.confidence_level = "low"
    /\ gOut2.confidence_level = "high"

(***************************************************************************)
(* Properties of the BM25 store (checked under SpecBm25).                  *)
(***************************************************************************)
\* C18 (as stated): build_index with no documents returns without raising
\* and leaves the store without an index, whatever it held before.
C18_EmptyBuildUnbuilds ==
    (bIn.op = "build_index" /\ bIn.documents = <<>>) =>
        /\ bpc = "returned"
        /\ bm25_index = NoBm25

SearchReturned == bIn.op = "search" /\ bpc = "returned"

IndexIn(docs, id) == CHOOSE i \in 1..Len(docs) : docs[i] = id

ReturnedIds == {bOut[i].id : i \in 1..Len(bOut)}

\* C19 (as stated): search on a built index returns at most top_k results,
\* for any top_k >= 0, all with a score above 0, in descending score order,
\* leaving out no document that scores above 0 and higher than a returned
\* one (or any at all when fewer than top_k are returned); search before a
\* build raises the index-not-built error.
C19_SearchContract ==
    /\ SearchReturned =>
          /\ bm25_index.built
          /\ Len(bOut) <= bIn.top_k
          /\ \A i \in 1..Len(bOut) :
                /\ bOut[i].score > 0
                /\ bOut[i].score = bIn.scores[IndexIn(store_documents, bOut[i].id)]
          /\ \A i, j \in 1..Len(bOut) : i < j => bOut[i].score >= bOut[j].score
          /\ \A d \in 1..Len(store_documents) :
                (bIn.scores[d] > 0 /\ store_documents[d] \notin ReturnedIds) =>
                    /\ Len(bOut) = bIn.top_k
                    /\ \A i \in 1..Len(bOut) : bOut[i].score >= bIn.scores[d]
    /\ (bIn.op = "search" /\ bm25_index = NoBm25) => bpc = "raised"

\* C20 (as stated): results with equal scores are in corpus insertion order,
\* and of equally scored documents at the top_k cut the earlier ones are
\* returned.
C20_TiesInInsertionOrder ==
    SearchReturned =>
        /\ \A i, j \in 1..Len(bOut) :
              (i < j /\ bOut[i].score = bOut[j].score) =>
                  IndexIn(store_documents, bOut[i].id) < IndexIn(store_documents, bOut[j].id)
        /\ \A d \in 1..Len(store_documents) : \A i \in 1..Len(bOut) :
              (store_documents[d] \notin ReturnedIds /\ bIn.scores[d] = bOut[i].score) =>
                  IndexIn(store_documents, bOut[i].id) < d

(***************************************************************************)
(* Properties of the /query route: candidate counts and an empty rerank.   *)
(***************************************************************************)
RetrieveCalled == Occurs("vector_search") \/ Occurs("vector_search_failed")

\* C24 (amended): for a request with top_k = k, retrieve asks the dense and
\* the sparse search for the configured first-stage counts
\* (retrieval_top_k_vector and retrieval_top_k_bm25, whatever k is) and asks
\* fusion for 2k; at most 2k fused candidates reach the reranker, and the
\* reranked passages handed to the generator and reported as used are at
\* most k.
C24_CandidateCounts ==
    /\ RetrieveCalled =>
          /\ retrieve_args.vector_top_k = RetrievalTopKVector
          /\ retrieve_args.bm25_top_k = RetrievalTopKBm25
          /\ retrieve_args.top_k = 2 * request.top_k
    /\ Len(retrieval_results) <= 2 * request.top_k
    /\ Len(reranked_results) <= request.top_k
    /\ (qpc = "done" /\ response.status = 200) =>
          Len(response.context_used) <= request.top_k

\* C24 (as stated): each of the two searches is asked for 2k candidates, and
\* the reranked passages are at most k.
C24_TwiceTopKFromEach ==
    /\ RetrieveCalled =>
          /\ retrieve_args.vector_top_k = 2 * request.top_k
          /\ retrieve_args.bm25_top_k = 2 * request.top_k
    /\ Len(reranked_results) <= request.top_k

\* the searches found more than 2k distinct passages, fusion kept 2k and the
\* reranker k of them, and the request was answered
C24_Witness ==
    /\ qpc = "done"
    /\ response.status = 200
    /\ Occurs("llm")
    /\ Cardinality(AllIds(vector_found, bm25_found)) > 2 * request.top_k
    /\ Len(retrieval_results) = 2 * request.top_k
    /\ Len(reranked_results) = request.top_k
    /\ Len(response.context_used) = request.top_k

\* C27 (as stated): when the reranker service answers with no passage for a
\* non-empty candidate list, the request is still answered 200 with the
\* no-information answer and no citations, with or without confidence.
C27_EmptyRerankAnswered ==
    (qpc = "done" /\ Occurs("rerank_service") /\ retrieval_results # <<>>
        /\ reranked_results = <<>>) =>
        /\ response.status = 200
        /\ response.answer = GeneratorNoDocsAnswer
        /\ response.citations = <<>>

(***************************************************************************)
(* Properties of the retriever's constructor (checked under SpecFuse).     *)
(***************************************************************************)
WeightInRange(w) == 0 <= w /\ w <= 10

\* C25: constructing the retriever with a sparse or a dense weight outside
\* [0, 1] fails with the invalid-weight error and gives no retriever, a
\* construction with both weights in [0, 1] succeeds, and so every fuse call
\* runs with both weights in [0, 1].
C25_InvalidWeightRejected ==
    /\ fpc = "rejected" =>
          /\ ~(WeightInRange(fIn.vector_weight) /\ WeightInRange(fIn.bm25_weight))
          /\ Construct(fIn.vector_weight, fIn.bm25_weight).error = InvalidWeightError
    /\ (fpc = "ready" \/ FuseRan) =>
          /\ WeightInRange(fIn.vector_weight)
          /\ WeightInRange(fIn.bm25_weight)

\* a construction with a sparse weight below 0 was rejected
C25_Witness ==
    /\ fpc = "rejected"
    /\ WeightInRange(fIn.vector_weight)
    /\ fIn.bm25_weight < 0

(***************************************************************************)
(* Properties of the reranker's statistics (checked under SpecRerank).     *)
(***************************************************************************)
ServiceJustSucceeded == Len(rLog') = Len(rLog) + 1 /\ rLog'[Len(rLog')] = "ok"

LoadJustFailed == bIn'.op = "load_index" /\ ~bIn'.returned

\* the index, the passage list and the tokenized corpus come from one build
\* (or the store holds none of the three)
StoreOfOneSource ==
    \/ TheStore = NewStore
    \/ /\ bm25_index.built
       /\ bm25_index.corpus = Tokenize(store_documents)
       /\ tokenized_corpus = Tokenize(store_documents)

\* C21 (as stated): a load_index call that returns False (no file, an
\* unreadable file, a snapshot lacking a key) returns without raising and
\* leaves bm25, documents and tokenized_corpus exactly as they were, and the
\* store never holds an index and a passage list from different sources.
C21_FailedLoadChangesNothing ==
    /\ [][LoadJustFailed =>
            /\ bpc' = "returned"
            /\ bm25_index' = bm25_index
            /\ store_documents' = store_documents
            /\ tokenized_corpus' = tokenized_corpus]_vars
    /\ [](bpc # "off" => StoreOfOneSource)

(***************************************************************************)
(* Properties of the server (checked under SpecServer).                    *)
(***************************************************************************)
\* the BM25 store a request in flight is about to search or is searching
QueryStore ==
    IF query.pc = "retrieve" /\ query.deps.hybrid_retriever # 0
    THEN retrievers[query.deps.hybrid_retriever].bm25_store
    ELSE IF query.pc \in {"bm25_check", "bm25_documents"} THEN query.store
    ELSE 0

\* the BM25 store of the published retriever
PublishedStore ==
    IF globals.hybrid_retriever = 0 THEN 0
    ELSE retrievers[globals.hybrid_retriever].bm25_store

StoreOfOneBuild(store) ==
    /\ store.bm25.built
    /\ store.bm25.corpus = Tokenize(store.documents)
    /\ store.tokenized_corpus = Tokenize(store.documents)

\* C22: a search that runs while an ingest rebuilds the sparse index takes
\* its scores and its passages from one build; the store of the published
\* retriever is always completely built; and no step changes a store that
\* the published retriever refers to or that a query in flight searches.
C22_AtomicPublish ==
    /\ []((query.pc \in {"rest", "done"} /\ query.seen_bm25.built) =>
             query.seen_bm25.corpus = Tokenize(query.seen_documents))
    /\ [](PublishedStore # 0 => StoreOfOneBuild(sparse_stores[PublishedStore]))
    /\ [][\A s \in 1..Len(sparse_stores) :
             (s = PublishedStore \/ s = QueryStore) =>
                 sparse_stores'[s] = sparse_stores[s]]_vars

\* a query has taken its scores from the first store while the second
\* ingest has assigned the documents of its new store and not yet its index
C22_Witness ==
    /\ query.pc = "bm25_documents"
    /\ query.store = 1
    /\ ingest.pc = "build_tokens"
    /\ globals.bm25_store = 2
    /\ sparse_stores[2].documents # <<>>
    /\ ~sparse_stores[2].bm25.built

\* C28 (as stated): a query issued while no ingest has completed
\* successfully is answered 503 "System not initialized. Run /ingest first."
C28_UninitializedRejected ==
    (query.pc = "done" /\ query.quiescent /\ ~query.initialized) =>
        query.response = NotInitialized

\* C29 (as stated): an ingest request whose directory does not exist is
\* answered 404 "Directory not found" and changes none of the six
\* module-level references.
C29_MissingDirectory ==
    (ingest.pc = "idle" /\ ingest.n > 0 /\ ~ingest.directory_exists) =>
        /\ ingest.response.status = DirectoryNotFound.status
        /\ globals = ingest.before

\* C30 (as stated): between ingests, whenever a retriever is published the
\* sparse store and the vector store that /health and /stats read are the
\* ones the retriever uses and that sparse store is built; and an ingest
\* that failed or processed nothing, coming after a published retriever,
\* leaves all six references as they were.
C30_PublishedConsistent ==
    /\ (IngestAlone /\ globals.hybrid_retriever # 0) =>
          LET r == retrievers[globals.hybrid_retriever]
          IN  /\ r.bm25_store = globals.bm25_store
              /\ r.vector_store = globals.vector_store
              /\ sparse_stores[globals.bm25_store].bm25.built
    /\ (IngestAlone /\ ingest.n > 0 /\ ingest.response # IngestSuccess
          /\ ingest.before.hybrid_retriever # 0) =>
          globals = ingest.before

(***************************************************************************)
(* Properties of the chunker (checked under SpecChunk).                    *)
(***************************************************************************)
\* the d-th input document has text and the splitter did not fail on it
Chunked(d) ==
    /\ cIn.documents[d].page_content \notin WhitespaceOnly
    /\ ~cIn.splits[d].raises

\* the number of chunks the d-th input document was split into
PieceCount(d) == IF Chunked(d) THEN Len(cIn.splits[d].chunks) ELSE 0

\* the number of chunks of the documents before the d-th
RECURSIVE ChunksBefore(_)
ChunksBefore(d) == IF d = 1 THEN 0 ELSE ChunksBefore(d - 1) + PieceCount(d - 1)

\* C26: the output of chunk_documents is, document by document in input
\* order, the n chunks of every document that has text and whose chunking
\* did not fail; each chunk carries every metadata key and value of its
\* document, chunk_index from 0 to n-1 in output order, total_chunks = n
\* and chunk_tokens; a document with empty or whitespace-only content and a
\* document whose chunking fails contribute nothing and cost the other
\* documents none of their chunks.
C26_ChunkContract ==
    cpc = "returned" =>
        /\ Len(cOut) = ChunksBefore(Len(cIn.documents) + 1)
        /\ \A d \in 1..Len(cIn.documents) : \A i \in 1..PieceCount(d) :
              LET chunk == cOut[ChunksBefore(d) + i]
                  document == cIn.documents[d]
              IN  /\ chunk.page_content = cIn.splits[d].chunks[i]
                  /\ \A key \in DOMAIN document.metadata :
                        /\ key \in DOMAIN chunk.metadata
                        /\ chunk.metadata[key] = document.metadata[key]
                  /\ chunk.metadata.chunk_index = i - 1
                  /\ chunk.metadata.total_chunks = PieceCount(d)
                  /\ "chunk_tokens" \in DOMAIN chunk.metadata
                  /\ chunk.metadata.chunk_tokens = CountTokens(chunk.page_content)

\* a whitespace-only document, a document whose chunking failed and a
\* document with a page number split into two chunks: the two chunks are
\* the output
C26_Witness ==
    /\ cpc = "returned"
    /\ Len(cIn.documents) = 3
    /\ cIn.documents[1].page_content \in WhitespaceOnly
    /\ cIn.documents[2].page_content \notin WhitespaceOnly
    /\ cIn.splits[2].raises
    /\ Chunked(3)
    /\ "page" \in DOMAIN cIn.documents[3].metadata
    /\ PieceCount(3) = 2
    /\ Len(cOut) = 2
    /\ cOut[2].metadata.chunk_index = 1

====
